---- MODULE Spec2Model ----
(***************************************************************************)
(* Verification model of the Anxiety-Detection VS Code extensions.         *)
(*                                                                         *)
(*  Part I   DataCollector (src/src/dataCollector.ts) driven by the        *)
(*           anxietyTracker extension host wiring (src/unnamed/part_003,   *)
(*           lines 1-344): the day-keyed DayStats store and the            *)
(*           active/idle time accounting.                                  *)
(*  Part II  AnxDet Monitor (src/unnamed/part_003, lines 346-554) with     *)
(*           Baseline / Welford (src/src/model.ts): window ticks,          *)
(*           calibration, hysteresis trigger, CSV log flushing and the     *)
(*           start / stop commands.                                        *)
(*                                                                         *)
(* Time is measured in abstract clock units; Date.now() is the variable    *)
(* now, which only the Advance action changes, so every handler runs at    *)
(* one instant (the host delivers events one at a time).                   *)
(***************************************************************************)
EXTENDS Integers, Sequences, FiniteSets, TLC

(***************************************************************************)
(* Bounds of the model.                                                    *)
(***************************************************************************)
MaxTime == 4      \* the clock runs from 0 to MaxTime
DayLen == 3       \* clock units per UTC calendar day
MaxStep == 2      \* largest clock advance between two handlers
MaxEvents == 3    \* host events delivered to the anxietyTracker handlers
MaxChanges == 1   \* largest e.contentChanges.length of one edit event
MaxMonitors == 2  \* Monitor objects created by anxdet.start
MaxTicks == 5     \* window ticks, over all monitors
MaxRows == 2      \* CSV rows generated, over all monitors
MaxFaults == 2    \* file-system operations that fail
MaxBaseline == 2  \* largest configured anxdet.baselineWindows
MaxK == 2         \* largest configured anxdet.consecutiveWindows
MaxSamples == 4   \* calls of Baseline.add on the Baseline object bl
MaxSnaps == 2     \* calls of FeatureExtractor.snapshot on the extractor fx
MaxErrors == 1    \* largest number of error diagnostics in the visible editors
MaxFxEvents == 2  \* host events delivered to the FeatureExtractor handlers
MaxIvTime == 5    \* minutes the intervention system's clock runs
MaxInterventions == 3 \* interventions generated
MaxUploads == 3   \* upload requests sent
MaxAtTime == 4    \* the activity tracker's clock runs from 0 to MaxAtTime
MaxAtEvents == 3  \* host events delivered to the activity tracker
AtDayLen == 4     \* clock units in a day of the activity tracker
MaxStamp == 4     \* timestamps of interventions run from 1 to MaxStamp
MaxRecorded == 4  \* interventions recorded in the day's record

\* anxietyTracker.idleMs (default 60000 ms), in clock units
IdleMs == 2

FileKeys == {"a.ts", "b.ts"}
NoKey == "undefined"
NoVal == -1
NoRec == [absent |-> TRUE]

VARIABLES
    now,               \* Date.now()
    activated,         \* the anxietyTracker extension is active (timers, handlers live)
    globalState,       \* context.globalState: day key -> DayStats or NoRec
    stats,             \* DataCollector.stats
    lastKeyAt,         \* DataCollector.lastKeyAt
    currentFileKey,    \* DataCollector.currentFileKey
    consecutiveErrors, \* DataCollector.consecutiveErrors
    fileSwitches,      \* DataCollector.fileSwitches
    lastFileKey,       \* DataCollector.lastFileKey
    ranMs,             \* history: clock units the extension has been running
                       \* since the record in stats was created
    unattributed,      \* history: some active interval of the record in stats
                       \* was credited while currentFileKey was undefined
    resetAt,           \* history: the instant the record in stats was wiped by a
                       \* confirmed reset, NoVal for a record never reset
    events,            \* history: host events handled so far
    config,            \* workspace configuration, section anxdet.*
    monitor,           \* module variable monitor: 0 is null, else a Monitor
    mon,               \* the Monitor objects created so far, by identity
    nMon,              \* number of Monitor objects created
    logFile,           \* anxdet_log.csv in globalStorageUri
    logCalls,          \* Monitor.log calls suspended at an await
    rowSeq,            \* rows generated so far (a row's timestamp column)
    faults,            \* history: file-system operations that failed
    hist,              \* history: the outcome of every Monitor.tick, in order
    recovered,         \* history: rows whose Monitor.log call met a failing
                       \* readFile and still resolved
    lastReport,        \* history: the last self-report label submitted from the
                       \* dashboard, with the most recent row at that moment
    bl,                \* a Baseline object (src/src/model.ts)
    samples,           \* history: the vectors passed to bl.add, in order
    normOut,           \* the argument and result of the last bl.normalize call
    fx,                \* a FeatureExtractor object
    snap,              \* history: the last vector fx.snapshot returned, with
                       \* the counters and times it was computed from
    ml,                \* the last AnxietyMLModel.predict call: score and level
    ivCfg,             \* workspace configuration, anxietyTracker.interventions.*
    iv,                \* the InterventionSystem object
    ivNow,             \* Date.now() of the intervention system, in minutes
    upCfg,             \* workspace configuration, activityTracker.autoUpload.*
    upReqs,            \* history: the upload requests sent (fetch calls), in order
    atNow,             \* Date.now() of the activity tracker
    at,                \* the activity tracker's closure variables: stats,
                       \* lastTick, lastKeyAt, logging, currentFileKey
    atStore,           \* the activity tracker's context.globalState
    atHist,            \* history: clock units that passed while logging was
                       \* paused, since the open idle event and since lastTick
    atEvents,          \* history: host events handled by the activity tracker
    interventions,     \* DayStats.interventions of the day's stored record:
                       \* the timestamps of its entries, in array order
    recordedIv         \* history: the timestamps passed to recordIntervention,
                       \* in call order

dcVars == <<now, activated, globalState, stats, lastKeyAt, currentFileKey,
            consecutiveErrors, fileSwitches, lastFileKey, ranMs, unattributed,
            resetAt, events>>

monVars == <<config, monitor, mon, nMon, logFile, logCalls, rowSeq, faults, hist,
             recovered, lastReport>>

libVars == <<bl, samples, normOut, fx, snap>>

atVars == <<atNow, at, atStore, atHist, atEvents>>

viewVars == <<interventions, recordedIv>>

extVars == <<ml, ivCfg, iv, ivNow, upCfg, upReqs, atVars, viewVars>>

vars == <<dcVars, monVars, libVars, extVars>>

(***************************************************************************)
(* Part I.  DataCollector                                                  *)
(***************************************************************************)
Days == 0 .. (MaxTime \div DayLen)

\* new Date().toISOString().slice(0, 10): the UTC calendar day of an instant
getDayKey(t) == t \div DayLen

\* the literal built by getOrCreateStats and resetStats
FreshStats(t) ==
    [ keystrokes |-> 0, activeMs |-> 0, idleMs |-> 0, idleEvents |-> <<>>,
      startedAt |-> t, lastActivityAt |-> t, currentlyIdle |-> FALSE,
      perFile |-> <<>>, interKeyAvgMs |-> NoVal,
      compileAttempts |-> 0, errorCount |-> 0, fileSwitches |-> 0 ]

\* the literal built by ensureFileEntry; the write-only FileStats fields
\* (errors, compileAttempts, undoCount, redoCount, codePatterns, lastModified)
\* are never read by any DataCollector operation and are not carried
FreshFileStats ==
    [ keystrokes |-> 0, activeMs |-> 0 ]

\* getOrCreateStats without the early return for an existing record
getOrCreateStatsAlwaysFresh(gs, t) == FreshStats(t)

\* getOrCreateStats: the record it returns ...
getOrCreateStats(gs, t) ==
    IF gs[getDayKey(t)] # NoRec THEN gs[getDayKey(t)] ELSE FreshStats(t)

\* ... and the store it leaves (globalState.update(day, fresh) when missing)
storeAfterGet(gs, t) ==
    IF gs[getDayKey(t)] # NoRec THEN gs
    ELSE [gs EXCEPT ![getDayKey(t)] = FreshStats(t)]

\* getOrCreateStats created a fresh record
createdFresh(gs, t) == gs[getDayKey(t)] = NoRec

\* saveStats: globalState.update(getDayKey(), this.stats)
saveStats(gs, s, t) == [gs EXCEPT ![getDayKey(t)] = s]

\* ensureFileEntry on a perFile mapping
ensureFileEntry(pf, key) ==
    IF key \in DOMAIN pf THEN pf ELSE pf @@ (key :> FreshFileStats)

\* Math.round(avg * 0.8 + delta * 0.2)
roundAvg(avg, delta) == (8 * avg + 2 * delta + 5) \div 10

\* creditFile with the increment applied twice
creditFileTwice(pf, key, delta) ==
    [ensureFileEntry(pf, key) EXCEPT ![key].activeMs = @ + delta + delta]

\* fileStats.activeMs += delta on the (lazily created) entry of the current file
creditFile(pf, key, delta) ==
    [ensureFileEntry(pf, key) EXCEPT ![key].activeMs = @ + delta]

\* markActivity that closes the idle event without adding its duration to idleMs
markActivityOnNoIdleSum(s, key, t) ==
    LET n == Len(s.idleEvents)
        lastIdle == s.idleEvents[n]
        closes == /\ s.currentlyIdle
                  /\ n > 0
                  /\ lastIdle.type = "idle"
                  /\ lastIdle.durationMs = NoVal
        ev1 == IF closes
               THEN [s.idleEvents EXCEPT ![n].durationMs = t - lastIdle.at]
               ELSE s.idleEvents
        idle1 == s.idleMs
        ev2 == IF s.currentlyIdle
               THEN Append(ev1, [type |-> "resume", at |-> t,
                                 durationMs |-> NoVal, meta |-> NoVal])
               ELSE ev1
        delta == t - s.lastActivityAt
        credit == delta > 0       \* currentlyIdle is false by now
        pf1 == IF credit /\ key # NoKey
               THEN creditFile(s.perFile, key, delta)
               ELSE s.perFile
    IN [s EXCEPT !.idleEvents = ev2,
                 !.idleMs = idle1,
                 !.currentlyIdle = FALSE,
                 !.activeMs = IF credit THEN @ + delta ELSE @,
                 !.perFile = pf1,
                 !.lastActivityAt = t]

\* markActivity with the whole crediting block under the file-key test: an
\* interval without a current file key is credited nowhere
markActivityOnKeyedOnly(s, key, t) ==
    LET n == Len(s.idleEvents)
        lastIdle == s.idleEvents[n]
        closes == /\ s.currentlyIdle
                  /\ n > 0
                  /\ lastIdle.type = "idle"
                  /\ lastIdle.durationMs = NoVal
        ev1 == IF closes
               THEN [s.idleEvents EXCEPT ![n].durationMs = t - lastIdle.at]
               ELSE s.idleEvents
        idle1 == IF closes THEN s.idleMs + (t - lastIdle.at) ELSE s.idleMs
        ev2 == IF s.currentlyIdle
               THEN Append(ev1, [type |-> "resume", at |-> t,
                                 durationMs |-> NoVal, meta |-> NoVal])
               ELSE ev1
        delta == t - s.lastActivityAt
        credit == delta > 0 /\ key # NoKey
    IN [s EXCEPT !.idleEvents = ev2,
                 !.idleMs = idle1,
                 !.currentlyIdle = FALSE,
                 !.activeMs = IF credit THEN @ + delta ELSE @,
                 !.perFile = IF credit THEN creditFile(@, key, delta) ELSE @,
                 !.lastActivityAt = t]

\* body of markActivity applied to record s at instant t with current file key
markActivityOn(s, key, t) ==
    LET n == Len(s.idleEvents)
        lastIdle == s.idleEvents[n]
        closes == /\ s.currentlyIdle
                  /\ n > 0
                  /\ lastIdle.type = "idle"
                  /\ lastIdle.durationMs = NoVal
        ev1 == IF closes
               THEN [s.idleEvents EXCEPT ![n].durationMs = t - lastIdle.at]
               ELSE s.idleEvents
        idle1 == IF closes THEN s.idleMs + (t - lastIdle.at) ELSE s.idleMs
        ev2 == IF s.currentlyIdle
               THEN Append(ev1, [type |-> "resume", at |-> t,
                                 durationMs |-> NoVal, meta |-> NoVal])
               ELSE ev1
        delta == t - s.lastActivityAt
        credit == delta > 0       \* currentlyIdle is false by now
        pf1 == IF credit /\ key # NoKey
               THEN creditFile(s.perFile, key, delta)
               ELSE s.perFile
    IN [s EXCEPT !.idleEvents = ev2,
                 !.idleMs = idle1,
                 !.currentlyIdle = FALSE,
                 !.activeMs = IF credit THEN @ + delta ELSE @,
                 !.perFile = pf1,
                 !.lastActivityAt = t]

\* markActivity credits an interval without a current file key
creditsUnattributed(s, key, t) == (t - s.lastActivityAt > 0) /\ key = NoKey

InitCollector ==
    /\ now = 0
    /\ activated = TRUE
    /\ stats = FreshStats(0)
    /\ globalState = [d \in Days |-> IF d = 0 THEN FreshStats(0) ELSE NoRec]
    /\ lastKeyAt = NoVal
    /\ currentFileKey = NoKey
    /\ consecutiveErrors = 0
    /\ fileSwitches = 0
    /\ lastFileKey = NoKey
    /\ ranMs = 0
    /\ unattributed = FALSE
    /\ resetAt = NoVal
    /\ events = 0

\* the clock advances between two handlers
Advance ==
    /\ \E d \in 1 .. MaxStep :
        /\ now + d <= MaxTime
        /\ now' = now + d
        /\ ranMs' = IF activated THEN ranMs + d ELSE ranMs
    /\ UNCHANGED <<activated, globalState, stats, lastKeyAt, currentFileKey,
                   consecutiveErrors, fileSwitches, lastFileKey, unattributed,
                   resetAt>>
    /\ UNCHANGED <<events, monVars, libVars, extVars>>

\* DataCollector.markActivity, called directly by the selection, active-editor
\* and window-focus handlers
markActivity ==
    /\ events < MaxEvents
    /\ events' = events + 1
    /\ activated
    /\ stats' = markActivityOn(stats, currentFileKey, now)
    /\ globalState' = saveStats(globalState, stats', now)
    /\ unattributed' = (unattributed \/ creditsUnattributed(stats, currentFileKey, now))
    /\ UNCHANGED resetAt
    /\ UNCHANGED <<now, activated, lastKeyAt, currentFileKey, consecutiveErrors,
                   fileSwitches, lastFileKey, ranMs>>
    /\ UNCHANGED <<monVars, libVars, extVars>>

\* the idle test without the check that the record is not idle already
idleDueAgain(s, t, idleThresholdMs) ==
    t - s.lastActivityAt >= idleThresholdMs

\* the idle test with a strict comparison
idleDueStrict(s, t, idleThresholdMs) ==
    ~s.currentlyIdle /\ t - s.lastActivityAt > idleThresholdMs

\* checkIdle: !currentlyIdle && sinceLast >= idleThresholdMs
idleDue(s, t, idleThresholdMs) ==
    ~s.currentlyIdle /\ t - s.lastActivityAt >= idleThresholdMs

\* DataCollector.checkIdle(idleMs), called by the 5 s interval timer
checkIdle ==
    /\ activated
    /\ LET s0 == getOrCreateStats(globalState, now)
           gs0 == storeAfterGet(globalState, now)
           fresh == createdFresh(globalState, now)
       IN /\ IF idleDue(s0, now, IdleMs)
             THEN /\ stats' = [s0 EXCEPT
                        !.currentlyIdle = TRUE,
                        !.idleEvents = Append(@, [type |-> "idle", at |-> now,
                                                  durationMs |-> NoVal,
                                                  meta |-> NoVal])]
                  /\ globalState' = saveStats(gs0, stats', now)
             ELSE /\ stats' = s0
                  /\ globalState' = gs0
          /\ ranMs' = IF fresh THEN 0 ELSE ranMs
          /\ unattributed' = IF fresh THEN FALSE ELSE unattributed
          /\ resetAt' = IF fresh THEN NoVal ELSE resetAt
    /\ UNCHANGED <<now, activated, lastKeyAt, currentFileKey, consecutiveErrors,
                   fileSwitches, lastFileKey>>
    /\ UNCHANGED <<events, monVars, libVars, extVars>>

\* DataCollector.recordKeystroke(document, changes), from onDidChangeTextDocument
recordKeystroke ==
    /\ events < MaxEvents
    /\ events' = events + 1
    /\ activated
    /\ \E key \in FileKeys, changes \in 1 .. MaxChanges :
        LET s0 == getOrCreateStats(globalState, now)
            gs0 == storeAfterGet(globalState, now)
            fresh == createdFresh(globalState, now)
            delta == now - lastKeyAt
            avg == IF lastKeyAt # NoVal
                   THEN IF s0.interKeyAvgMs = NoVal THEN delta
                        ELSE roundAvg(s0.interKeyAvgMs, delta)
                   ELSE s0.interKeyAvgMs
            pf0 == ensureFileEntry(s0.perFile, key)
            pf1 == [pf0 EXCEPT ![key].keystrokes = @ + changes]
            switched == lastFileKey # NoKey /\ lastFileKey # key
            s1 == [s0 EXCEPT !.keystrokes = @ + changes,
                             !.interKeyAvgMs = avg,
                             !.perFile = pf1,
                             !.fileSwitches = IF switched THEN @ + 1 ELSE @]
        IN /\ stats' = markActivityOn(s1, key, now)
           /\ globalState' = saveStats(gs0, stats', now)
           /\ lastKeyAt' = now
           /\ currentFileKey' = key
           /\ lastFileKey' = key
           /\ fileSwitches' = IF switched THEN fileSwitches + 1 ELSE fileSwitches
           /\ ranMs' = IF fresh THEN 0 ELSE ranMs
           /\ unattributed' = IF fresh THEN FALSE ELSE unattributed
           /\ resetAt' = IF fresh THEN NoVal ELSE resetAt
    /\ UNCHANGED <<now, activated, consecutiveErrors>>
    /\ UNCHANGED <<monVars, libVars, extVars>>

\* DataCollector.recordError(document), from onDidChangeDiagnostics
recordError ==
    /\ events < MaxEvents
    /\ events' = events + 1
    /\ activated
    /\ \E key \in FileKeys :
        LET s0 == getOrCreateStats(globalState, now)
            gs0 == storeAfterGet(globalState, now)
            fresh == createdFresh(globalState, now)
            pf1 == ensureFileEntry(s0.perFile, key)
        IN /\ stats' = [s0 EXCEPT
                    !.errorCount = @ + 1,
                    !.perFile = pf1,
                    !.idleEvents = Append(@, [type |-> "error", at |-> now,
                                              durationMs |-> NoVal,
                                              meta |-> consecutiveErrors + 1])]
           /\ globalState' = saveStats(gs0, stats', now)
           /\ consecutiveErrors' = consecutiveErrors + 1
           /\ ranMs' = IF fresh THEN 0 ELSE ranMs
           /\ unattributed' = IF fresh THEN FALSE ELSE unattributed
           /\ resetAt' = IF fresh THEN NoVal ELSE resetAt
    /\ UNCHANGED <<now, activated, lastKeyAt, currentFileKey, fileSwitches,
                   lastFileKey>>
    /\ UNCHANGED <<monVars, libVars, extVars>>

\* DataCollector.recordSuccess, from onDidChangeDiagnostics with no error left
recordSuccess ==
    /\ events < MaxEvents
    /\ events' = events + 1
    /\ activated
    /\ consecutiveErrors' = 0
    /\ UNCHANGED <<now, activated, globalState, stats, lastKeyAt, currentFileKey,
                   fileSwitches, lastFileKey, ranMs, unattributed,
                   resetAt>>
    /\ UNCHANGED <<monVars, libVars, extVars>>

\* DataCollector.recordCompileAttempt(true), from onDidEndTask
recordCompileAttempt ==
    /\ events < MaxEvents
    /\ events' = events + 1
    /\ activated
    /\ LET s0 == getOrCreateStats(globalState, now)
           gs0 == storeAfterGet(globalState, now)
           fresh == createdFresh(globalState, now)
           pf1 == IF currentFileKey # NoKey
                  THEN ensureFileEntry(s0.perFile, currentFileKey)
                  ELSE s0.perFile
       IN /\ stats' = [s0 EXCEPT
                   !.compileAttempts = @ + 1,
                   !.perFile = pf1,
                   !.idleEvents = Append(@, [type |-> "compile", at |-> now,
                                             durationMs |-> NoVal,
                                             meta |-> 1])]
          /\ globalState' = saveStats(gs0, stats', now)
          /\ consecutiveErrors' = 0
          /\ ranMs' = IF fresh THEN 0 ELSE ranMs
          /\ unattributed' = IF fresh THEN FALSE ELSE unattributed
          /\ resetAt' = IF fresh THEN NoVal ELSE resetAt
    /\ UNCHANGED <<now, activated, lastKeyAt, currentFileKey, fileSwitches,
                   lastFileKey>>
    /\ UNCHANGED <<monVars, libVars, extVars>>

\* DataCollector.resetStats, from the confirmed anxietyTracker.resetSession command
resetStats ==
    /\ events < MaxEvents
    /\ events' = events + 1
    /\ activated
    /\ stats' = FreshStats(now)
    /\ globalState' = [globalState EXCEPT ![getDayKey(now)] = FreshStats(now)]
    /\ consecutiveErrors' = 0
    /\ fileSwitches' = 0
    /\ lastFileKey' = NoKey
    /\ ranMs' = 0
    /\ unattributed' = FALSE
    /\ resetAt' = now
    /\ UNCHANGED <<now, activated, lastKeyAt, currentFileKey>>
    /\ UNCHANGED <<monVars, libVars, extVars>>

\* the anxietyTracker.resetSession command when the modal prompt is answered
\* with anything but "Reset" (cancelled, closed): the handler returns
resetSessionDismissed ==
    /\ events < MaxEvents
    /\ events' = events + 1
    /\ activated
    /\ UNCHANGED <<now, activated, globalState, stats, lastKeyAt, currentFileKey,
                   consecutiveErrors, fileSwitches, lastFileKey, ranMs,
                   unattributed, resetAt>>
    /\ UNCHANGED <<monVars, libVars, extVars>>

\* deactivate(): both interval timers are cleared, the subscriptions disposed
deactivate ==
    /\ events < MaxEvents
    /\ events' = events + 1
    /\ activated
    /\ activated' = FALSE
    /\ UNCHANGED <<now, globalState, stats, lastKeyAt, currentFileKey,
                   consecutiveErrors, fileSwitches, lastFileKey, ranMs,
                   unattributed,
                   resetAt>>
    /\ UNCHANGED <<monVars, libVars, extVars>>

\* activate(context): new DataCollector(context), same globalState
activate ==
    /\ ~activated
    /\ activated' = TRUE
    /\ stats' = getOrCreateStats(globalState, now)
    /\ globalState' = storeAfterGet(globalState, now)
    /\ lastKeyAt' = NoVal
    /\ currentFileKey' = NoKey
    /\ consecutiveErrors' = 0
    /\ fileSwitches' = 0
    /\ lastFileKey' = NoKey
    /\ ranMs' = IF createdFresh(globalState, now) THEN 0 ELSE ranMs
    /\ unattributed' = IF createdFresh(globalState, now) THEN FALSE ELSE unattributed
    /\ resetAt' = IF createdFresh(globalState, now) THEN NoVal ELSE resetAt
    /\ UNCHANGED now
    /\ UNCHANGED <<events, monVars, libVars, extVars>>


(***************************************************************************)
(* Part II.  AnxDet Monitor, Baseline, Welford                             *)
(*                                                                         *)
(* Real numbers are exact rationals <<numerator, denominator>> with a      *)
(* positive denominator, in lowest terms.  A score is an integer number of *)
(* tenths (3.0 is 30).                                                     *)
(***************************************************************************)
FeatureKeys == {"keysPerMin", "backspacesPerMin", "pauseRatio", "errorsPerMin",
                "undoRedoPerMin", "cursorJumpsPerMin", "fileSwitchesPerMin",
                "codeChurnLocPerMin"}

Abs(i) == IF i < 0 THEN -i ELSE i

RECURSIVE GCD(_, _)
GCD(a, b) == IF b = 0 THEN a ELSE GCD(b, a % b)

Rat(p, q) ==
    LET g == GCD(Abs(p), Abs(q))
        sgn == IF q < 0 THEN -1 ELSE 1
    IN <<(sgn * p) \div g, (sgn * q) \div g>>

RAdd(a, b) == Rat(a[1] * b[2] + b[1] * a[2], a[2] * b[2])
RSub(a, b) == Rat(a[1] * b[2] - b[1] * a[2], a[2] * b[2])
RMul(a, b) == Rat(a[1] * b[1], a[2] * b[2])
RDivInt(a, n) == Rat(a[1], a[2] * n)

\* new Welford()
NewWelford == [n |-> 0, mean |-> <<0, 1>>, m2 |-> <<0, 1>>]

\* Welford.add with m2 accumulated from the old deviation alone
WelfordAddOldDelta(w, x) ==
    LET n1 == w.n + 1
        delta == RSub(x, w.mean)
        mean1 == RAdd(w.mean, RDivInt(delta, n1))
    IN [n |-> n1, mean |-> mean1, m2 |-> RAdd(w.m2, RMul(delta, delta))]

\* Welford.add(x)
WelfordAdd(w, x) ==
    LET n1 == w.n + 1
        delta == RSub(x, w.mean)
        mean1 == RAdd(w.mean, RDivInt(delta, n1))
        delta2 == RSub(x, mean1)
    IN [n |-> n1, mean |-> mean1, m2 |-> RAdd(w.m2, RMul(delta, delta2))]

\* new Baseline()
NewBaseline == [k \in FeatureKeys |-> NewWelford]

\* Baseline.add that leaves the pauseRatio estimator out
BaselineAddSkipping(b, feats) ==
    [k \in FeatureKeys |->
        IF k = "pauseRatio" THEN b[k] ELSE WelfordAdd(b[k], feats[k])]

\* Baseline.add(feats)
BaselineAdd(b, feats) == [k \in FeatureKeys |-> WelfordAdd(b[k], feats[k])]

\* Baseline.count()
BaselineCount(b) == b["keysPerMin"].n

\* feature vectors a window can produce (extractor.snapshot() is an input of
\* tick here): keysPerMin and pauseRatio vary, the other rates are 0
Fv(keys, pause) ==
    [k \in FeatureKeys |->
        IF k = "keysPerMin" THEN <<keys, 1>>
        ELSE IF k = "pauseRatio" THEN pause ELSE <<0, 1>>]

FeatVecs == {Fv(10, <<0, 1>>), Fv(20, <<1, 2>>)}

\* anxdet.scoreThreshold, default 3.0
DefaultThreshold == 30

\* values of scorer.score(baseline.normalize(feats)): below, at and above the
\* threshold.  The score is a weighted sum of z-scores with user-configured
\* real weights; tick uses it only in score >= threshold and in the log row.
Scores == {10, 30, 40}

\* the baseline-phase test with an inclusive comparison
inBaselinePhaseInclusive(count, baselineWindows) == count <= baselineWindows

\* tick: the baseline-phase test
inBaselinePhase(count, baselineWindows) == count < baselineWindows

\* the streak after scoring a window, without the reset below threshold
streakAfterNoReset(aboveCount, score, threshold) ==
    IF score >= threshold THEN aboveCount + 1 ELSE aboveCount

\* tick: the streak after scoring a window
streakAfter(aboveCount, score, threshold) ==
    IF score >= threshold THEN aboveCount + 1 ELSE 0

\* the trigger test with a strict comparison
isTriggeredStrict(aboveCount, consecutiveReq) == aboveCount > consecutiveReq

\* tick: the trigger decision
isTriggered(aboveCount, consecutiveReq) == aboveCount >= consecutiveReq

\* the streak left behind, without the reset on firing
streakLeftNoReset(aboveCount, triggered) == aboveCount

\* tick: the streak left behind
streakLeft(aboveCount, triggered) == IF triggered THEN 0 ELSE aboveCount

\* a CSV line: the header, or the row of one window.  The eight feature
\* columns are formatted copies of the tick's vector and are not carried.
HeaderLine ==
    [kind |-> "header", ts |-> 0, score |-> 0, triggered |-> FALSE,
     selfReport |-> NoVal]

Row(ts, score, triggered) ==
    [kind |-> "row", ts |-> ts, score |-> score, triggered |-> triggered,
     selfReport |-> NoVal]

NoFile == [exists |-> FALSE, content |-> <<>>]

\* a Monitor that has not been constructed
NoMonitor ==
    [pc |-> "none", timer |-> FALSE, disposed |-> FALSE, aboveCount |-> 0,
     baseline |-> NewBaseline, csvBuffer |-> <<>>, logUri |-> FALSE,
     baselineWindows |-> 0, threshold |-> 0, consecutiveReq |-> 0]

\* new Monitor(context): the constructor reads the configuration
NewMonitor(cfg) ==
    [NoMonitor EXCEPT !.pc = "constructed",
                      !.baselineWindows = cfg.baselineWindows,
                      !.threshold = cfg.scoreThreshold,
                      !.consecutiveReq = cfg.consecutiveWindows]

Monitors == 1 .. MaxMonitors

NoReport == [row |-> 0, label |-> NoVal]

\* every variable of Part II before anxdet.start has ever run
MonitorIdle ==
    /\ monitor = 0
    /\ mon = [m \in Monitors |-> NoMonitor]
    /\ nMon = 0
    /\ logCalls = {}
    /\ rowSeq = 0
    /\ faults = 0
    /\ hist = <<>>
    /\ recovered = {}
    /\ lastReport = NoReport

(***************************************************************************)
(* The anxdet.start command and Monitor.start, one action per await.       *)
(***************************************************************************)
\* the tail of Monitor.start after initLogging: extractor.start(), setInterval
startTimer(M) == [M EXCEPT !.pc = "started", !.timer = TRUE]

\* anxdet.start up to the first await of Monitor.start
startCmd ==
    /\ monitor = 0
    /\ nMon < MaxMonitors
    /\ LET m == nMon + 1
       IN /\ monitor' = m
          /\ nMon' = m
          /\ mon' = [mon EXCEPT ![m] =
                [NewMonitor(config) EXCEPT !.pc =
                    IF config.enableLogging THEN "consent" ELSE "createDir"]]
    /\ UNCHANGED <<config, logFile, logCalls, rowSeq, faults, hist, dcVars, recovered, lastReport,
                   libVars, extVars>>

\* the consent prompt is answered (or dismissed)
consentAnswered(m) ==
    /\ mon[m].pc = "consent"
    /\ \E choice \in {"Proceed", "Disable Logging", "dismissed"} :
        mon' = [mon EXCEPT ![m].pc =
                    IF choice = "Disable Logging" THEN "update" ELSE "createDir"]
    /\ UNCHANGED <<config, monitor, nMon, logFile, logCalls, rowSeq, faults,
                   hist, dcVars, recovered, lastReport,
                   libVars, extVars>>

\* getConfiguration().update('anxdet.enableLogging', false) completes
configUpdated(m) ==
    /\ mon[m].pc = "update"
    /\ config' = [config EXCEPT !.enableLogging = FALSE]
    /\ mon' = [mon EXCEPT ![m].pc = "createDir"]
    /\ UNCHANGED <<monitor, nMon, logFile, logCalls, rowSeq, faults, hist, dcVars, recovered, lastReport,
                   libVars, extVars>>

\* initLogging: createDirectory completes; logUri is set, stat is awaited
createDirDone(m) ==
    /\ mon[m].pc = "createDir"
    /\ \/ /\ mon' = [mon EXCEPT ![m].pc = "stat", ![m].logUri = TRUE]
          /\ UNCHANGED faults
       \/ /\ faults < MaxFaults
          /\ faults' = faults + 1
          /\ mon' = [mon EXCEPT ![m].pc = "failed"]
    /\ UNCHANGED <<config, monitor, nMon, logFile, logCalls, rowSeq, hist, dcVars, recovered, lastReport,
                   libVars, extVars>>

\* initLogging: stat completes; a missing file (or a failing stat) leads to
\* the header write, otherwise start runs to its end
statDone(m) ==
    /\ mon[m].pc = "stat"
    /\ \/ /\ logFile.exists
          /\ mon' = [mon EXCEPT ![m] = startTimer(@)]
          /\ UNCHANGED faults
       \/ /\ ~logFile.exists
          /\ mon' = [mon EXCEPT ![m].pc = "writeHeader"]
          /\ UNCHANGED faults
       \/ /\ logFile.exists
          /\ faults < MaxFaults
          /\ faults' = faults + 1
          /\ mon' = [mon EXCEPT ![m].pc = "writeHeader"]
    /\ UNCHANGED <<config, monitor, nMon, logFile, logCalls, rowSeq, hist, dcVars, recovered, lastReport,
                   libVars, extVars>>

\* initLogging: the header write completes, start runs to its end
writeHeaderDone(m) ==
    /\ mon[m].pc = "writeHeader"
    /\ \/ /\ logFile' = [exists |-> TRUE, content |-> <<HeaderLine>>]
          /\ mon' = [mon EXCEPT ![m] = startTimer(@)]
          /\ UNCHANGED faults
       \/ /\ faults < MaxFaults
          /\ faults' = faults + 1
          /\ mon' = [mon EXCEPT ![m].pc = "failed"]
          /\ UNCHANGED logFile
    /\ UNCHANGED <<config, monitor, nMon, logCalls, rowSeq, hist, dcVars, recovered, lastReport,
                   libVars, extVars>>

\* Monitor.dispose
dispose(M) == [M EXCEPT !.timer = FALSE, !.disposed = TRUE]

\* anxdet.stop (and deactivate of the AnxDet extension)
stopCmd ==
    /\ monitor # 0
    /\ mon' = [mon EXCEPT ![monitor] = dispose(@)]
    /\ monitor' = 0
    /\ UNCHANGED <<config, nMon, logFile, logCalls, rowSeq, faults, hist, dcVars, recovered, lastReport,
                   libVars, extVars>>

(***************************************************************************)
(* Monitor.tick up to the first await of Monitor.log, fired by the         *)
(* interval timer of monitor m.                                            *)
(***************************************************************************)
tick(m) ==
    /\ mon[m].timer
    /\ Len(hist) < MaxTicks
    /\ rowSeq < MaxRows
    /\ \E feats \in FeatVecs, sc \in Scores :
        LET M == mon[m]
            calib == inBaselinePhase(BaselineCount(M.baseline), M.baselineWindows)
            score == IF calib THEN 0 ELSE sc
            above1 == IF calib THEN M.aboveCount
                      ELSE streakAfter(M.aboveCount, score, M.threshold)
            triggered == IF calib THEN FALSE
                         ELSE isTriggered(above1, M.consecutiveReq)
            above2 == IF calib THEN M.aboveCount
                      ELSE streakLeft(above1, triggered)
            logs == config.enableLogging /\ M.logUri
            row == Row(rowSeq + 1, score, triggered)
        IN /\ mon' = [mon EXCEPT
                  ![m].baseline = IF calib THEN BaselineAdd(@, feats) ELSE @,
                  ![m].aboveCount = above2,
                  ![m].csvBuffer = IF logs THEN Append(@, row) ELSE @]
           /\ hist' = Append(hist, [m |-> m, calibrating |-> calib,
                                    score |-> score, triggered |-> triggered,
                                    aboveCount |-> above2, logged |-> logs])
           /\ rowSeq' = IF logs THEN rowSeq + 1 ELSE rowSeq
           /\ logCalls' = IF logs
                          THEN logCalls \cup {[m |-> m, id |-> rowSeq + 1,
                                               pc |-> "read", payload |-> <<>>,
                                               readFailed |-> FALSE]}
                          ELSE logCalls
    /\ UNCHANGED <<config, monitor, nMon, logFile, faults, dcVars, recovered, lastReport,
                   libVars, extVars>>

(***************************************************************************)
(* Monitor.log after its awaits.  A call is identified by the row its tick *)
(* generated.                                                              *)
(***************************************************************************)
RowIds == 1 .. MaxRows

NoCall ==
    [m |-> 0, id |-> 0, pc |-> "none", payload |-> <<>>, readFailed |-> FALSE]

CallOf(id) ==
    IF \E c \in logCalls : c.id = id
    THEN CHOOSE c \in logCalls : c.id = id
    ELSE NoCall

\* Monitor.log without the try / catch: a failing readFile rejects the call
logReadDoneRejecting(c) ==
    /\ c \in logCalls
    /\ c.pc = "read"
    /\ \/ /\ logFile.exists
          /\ logCalls' = (logCalls \ {c}) \cup
                {[c EXCEPT !.pc = "write",
                           !.payload = logFile.content \o mon[c.m].csvBuffer]}
          /\ UNCHANGED faults
       \/ /\ ~logFile.exists
          /\ logCalls' = logCalls \ {c}
          /\ UNCHANGED faults
       \/ /\ logFile.exists
          /\ faults < MaxFaults
          /\ faults' = faults + 1
          /\ logCalls' = logCalls \ {c}
    /\ UNCHANGED <<config, monitor, mon, nMon, logFile, rowSeq, hist, dcVars,
                   recovered, lastReport,
                   libVars, extVars>>

\* readFile completes: on success the write of existing + buffer is awaited,
\* on failure the catch block awaits the write of the buffer alone
logReadDone(c) ==
    /\ c \in logCalls
    /\ c.pc = "read"
    /\ \/ /\ logFile.exists
          /\ logCalls' = (logCalls \ {c}) \cup
                {[c EXCEPT !.pc = "write",
                           !.payload = logFile.content \o mon[c.m].csvBuffer]}
          /\ UNCHANGED faults
       \/ /\ ~logFile.exists
          /\ logCalls' = (logCalls \ {c}) \cup
                {[c EXCEPT !.pc = "catchWrite", !.readFailed = TRUE,
                           !.payload = mon[c.m].csvBuffer]}
          /\ UNCHANGED faults
       \/ /\ logFile.exists
          /\ faults < MaxFaults
          /\ faults' = faults + 1
          /\ logCalls' = (logCalls \ {c}) \cup
                {[c EXCEPT !.pc = "catchWrite", !.readFailed = TRUE,
                           !.payload = mon[c.m].csvBuffer]}
    /\ UNCHANGED <<config, monitor, mon, nMon, logFile, rowSeq, hist, dcVars,
                   recovered, lastReport,
                   libVars, extVars>>

\* the write in the try block completes: on success the buffer is cleared,
\* on failure the catch block awaits the write of the buffer alone
logWriteDone(c) ==
    /\ c \in logCalls
    /\ c.pc = "write"
    /\ \/ /\ logFile' = [exists |-> TRUE, content |-> c.payload]
          /\ mon' = [mon EXCEPT ![c.m].csvBuffer = <<>>]
          /\ logCalls' = logCalls \ {c}
          /\ UNCHANGED faults
       \/ /\ faults < MaxFaults
          /\ faults' = faults + 1
          /\ logCalls' = (logCalls \ {c}) \cup
                {[c EXCEPT !.pc = "catchWrite", !.payload = mon[c.m].csvBuffer]}
          /\ UNCHANGED <<logFile, mon>>
    /\ UNCHANGED <<config, monitor, nMon, rowSeq, hist, dcVars, recovered, lastReport,
                   libVars, extVars>>

\* the write in the catch block completes: on success the buffer is cleared,
\* on failure the rejection leaves log and tick with the buffer as it is
logCatchWriteDone(c) ==
    /\ c \in logCalls
    /\ c.pc = "catchWrite"
    /\ \/ /\ logFile' = [exists |-> TRUE, content |-> c.payload]
          /\ mon' = [mon EXCEPT ![c.m].csvBuffer = <<>>]
          /\ recovered' = IF c.readFailed THEN recovered \cup {c.id}
                           ELSE recovered
          /\ UNCHANGED faults
       \/ /\ faults < MaxFaults
          /\ faults' = faults + 1
          /\ UNCHANGED <<logFile, mon, recovered>>
    /\ logCalls' = logCalls \ {c}
    /\ UNCHANGED <<config, monitor, nMon, rowSeq, hist, dcVars, lastReport,
                   libVars, extVars>>

(***************************************************************************)
(* The dashboard's self-report callback (Monitor.openDashboard).           *)
(***************************************************************************)
\* values of the dashboard's self-report slider
Labels == {3, 7}

\* row.replace(/,\n$/, `,${label}\n`): only a row whose last column is still
\* empty matches
withLabel(row, label) ==
    IF row.selfReport = NoVal THEN [row EXCEPT !.selfReport = label] ELSE row

\* the callback on a buffer: the last buffered row takes the label
onSelfReport(buf, label) ==
    IF Len(buf) >= 1
    THEN [buf EXCEPT ![Len(buf)] = withLabel(@, label)]
    ELSE buf

\* the dashboard of monitor m posts a selfReport message
selfReport(m) ==
    /\ mon[m].pc = "started"
    /\ \E label \in Labels :
        /\ mon' = [mon EXCEPT ![m].csvBuffer = onSelfReport(@, label)]
        /\ lastReport' = [row |-> rowSeq, label |-> label]
    /\ UNCHANGED <<config, monitor, nMon, logFile, logCalls, rowSeq, faults,
                   hist, recovered, dcVars, libVars, extVars>>

(***************************************************************************)
(* Part III.  Baseline and FeatureExtractor as objects of their own        *)
(* (src/src/model.ts, src/src/featureExtractor.ts).                        *)
(***************************************************************************)
RLeq(a, b) == a[1] * b[2] <= b[1] * a[2]
RMax(a, b) == IF RLeq(a, b) THEN b ELSE a
RMin(a, b) == IF RLeq(a, b) THEN a ELSE b
RDiv(a, b) == Rat(a[1] * b[2], a[2] * b[1])
Sign(i) == IF i > 0 THEN 1 ELSE IF i < 0 THEN -1 ELSE 0

\* Welford.getStd(), squared: the sample variance, 1 below two samples
getStdSquared(w) == IF w.n > 1 THEN RDivInt(w.m2, w.n - 1) ELSE <<1, 1>>

\* the divisor without the floor: std itself
stdClampedNever(var) == FALSE

\* Math.max(1e-6, std) takes the 1e-6 branch: std * std <= 1e-12, for a
\* non-negative rational std * std
stdClamped(var) ==
    var[1] = 0 \/ ((var[2] \div var[1]) \div 1000000) >= 1000000

\* one entry of Baseline.normalize: (x - mean) / max(1e-6, std), carried as
\* its sign and its square; eps marks a square that is to be read in units
\* of 1e12 (the division by the clamped std 1e-6)
normalizeNoCenter(w, x) ==
    LET var == getStdSquared(w)
    IN [sgn |-> Sign(x[1]),
        sq |-> IF stdClamped(var) THEN RMul(x, x) ELSE RDiv(RMul(x, x), var),
        eps |-> stdClamped(var)]

normalizeAt(w, x) ==
    LET var == getStdSquared(w)
        diff == RSub(x, w.mean)
    IN [sgn |-> Sign(diff[1]),
        sq |-> IF stdClamped(var) THEN RMul(diff, diff)
               ELSE RDiv(RMul(diff, diff), var),
        eps |-> stdClamped(var)]

\* Baseline.normalize(feats)
BaselineNormalize(b, feats) == [k \in FeatureKeys |-> normalizeAt(b[k], feats[k])]

\* the vector of the current per-feature means (getMean of every estimator)
MeanVec(b) == [k \in FeatureKeys |-> b[k].mean]

\* vectors passed to Baseline.add and Baseline.normalize
SampleVecs == FeatVecs \cup {Fv(15, <<1, 1>>)}

NoNorm == [called |-> FALSE]

\* bl.add(feats)
baselineAddCall ==
    /\ Len(samples) < MaxSamples
    /\ \E feats \in SampleVecs :
        /\ bl' = BaselineAdd(bl, feats)
        /\ samples' = Append(samples, feats)
    /\ normOut' = NoNorm
    /\ UNCHANGED <<fx, snap, dcVars, monVars, extVars>>

\* bl.normalize(feats), on a sample vector or on the vector of current means
baselineNormalizeCall ==
    /\ \E feats \in SampleVecs \cup {MeanVec(bl)} :
        normOut' = [called |-> TRUE, input |-> feats,
                    out |-> BaselineNormalize(bl, feats)]
    /\ UNCHANGED <<bl, samples, fx, snap, dcVars, monVars, extVars>>

(***************************************************************************)
(* FeatureExtractor.  In its conversions one clock unit is UnitMs          *)
(* milliseconds, so that both sides of Math.max(1, seconds) occur.         *)
(***************************************************************************)
UnitMs == 400

\* (t2 - t1) / 1000
seconds(d) == Rat(d * UnitMs, 1000)

\* values of anxdet.windowSeconds
WindowSecondsSet == {<<1, 2>>, <<1, 1>>, <<2, 1>>}

\* new FeatureExtractor(windowSeconds), field initialisers at instant t
NewExtractor(ws, t) ==
    [started |-> FALSE, windowSeconds |-> ws, windowStart |-> t,
     lastActivity |-> t, insertedChars |-> 0, backspaces |-> 0, undoRedo |-> 0,
     cursorJumps |-> 0, fileSwitches |-> 0, churnLoc |-> 0,
     errorCountWindow |-> 0]

\* FeatureExtractor.start()
startExtractor(f, t) ==
    [f EXCEPT !.started = TRUE, !.windowStart = t, !.lastActivity = t]

\* one element of e.contentChanges: text.length, rangeLength and the number
\* of newlines in text
ChangeKinds ==
    { [newLen |-> 2, oldLen |-> 0, newlines |-> 1],
      [newLen |-> 0, oldLen |-> 41, newlines |-> 0],
      [newLen |-> 1, oldLen |-> 1, newlines |-> 1] }

\* values of e.contentChanges: no change, every single change, and an
\* insertion followed by a deletion
ChangeSeqs ==
    {<<>>} \cup {<<c>> : c \in ChangeKinds}
           \cup {<<[newLen |-> 2, oldLen |-> 0, newlines |-> 1],
                    [newLen |-> 0, oldLen |-> 41, newlines |-> 0]>>}

\* the loop body with a replacement of equal length counted as an undo/redo
applyChangeCountsUndo(f, c) ==
    LET delta == c.newLen - c.oldLen
    IN IF delta > 0
       THEN [f EXCEPT !.insertedChars = @ + delta, !.churnLoc = @ + c.newlines]
       ELSE IF delta < 0
       THEN [f EXCEPT !.backspaces = @ + Abs(delta),
                      !.churnLoc = @ + ((c.oldLen + 39) \div 40)]
       ELSE [f EXCEPT !.churnLoc = @ + c.newlines, !.undoRedo = @ + 1]

\* the body of the loop over e.contentChanges
applyChange(f, c) ==
    LET delta == c.newLen - c.oldLen
    IN IF delta > 0
       THEN [f EXCEPT !.insertedChars = @ + delta, !.churnLoc = @ + c.newlines]
       ELSE IF delta < 0
       THEN [f EXCEPT !.backspaces = @ + Abs(delta),
                      !.churnLoc = @ + ((c.oldLen + 39) \div 40)]
       ELSE [f EXCEPT !.churnLoc = @ + c.newlines]

RECURSIVE applyChanges(_, _)
applyChanges(f, cs) ==
    IF cs = <<>> THEN f ELSE applyChanges(applyChange(f, Head(cs)), Tail(cs))

\* perMin without the conversion to minutes
perMinPerSec(v, elapsedSec) == RDiv(<<v, 1>>, RMax(<<1, 1>>, elapsedSec))

\* snapshot: perMin(v) = (v * 60) / Math.max(1, elapsedSec)
perMin(v, elapsedSec) == RDiv(<<v * 60, 1>>, RMax(<<1, 1>>, elapsedSec))

\* pauseRatio without the cap at 1
pauseRatioUncapped(idleSec, ws) == RDiv(idleSec, RMax(<<1, 1>>, ws))

\* snapshot: Math.min(1, idleSec / Math.max(1, this.windowSeconds))
pauseRatioOf(idleSec, ws) == RMin(<<1, 1>>, RDiv(idleSec, RMax(<<1, 1>>, ws)))

\* snapshot: the vector it returns at instant t
snapshotFeats(f, t) ==
    LET elapsedSec == RMax(<<1, 1>>, seconds(t - f.windowStart))
        idleSec == RMax(<<0, 1>>, seconds(t - f.lastActivity))
    IN [k \in FeatureKeys |->
          CASE k = "keysPerMin" -> perMin(f.insertedChars, elapsedSec)
            [] k = "backspacesPerMin" -> perMin(f.backspaces, elapsedSec)
            [] k = "pauseRatio" -> pauseRatioOf(idleSec, f.windowSeconds)
            [] k = "errorsPerMin" -> <<f.errorCountWindow, 1>>
            [] k = "undoRedoPerMin" -> perMin(f.undoRedo, elapsedSec)
            [] k = "cursorJumpsPerMin" -> perMin(f.cursorJumps, elapsedSec)
            [] k = "fileSwitchesPerMin" -> perMin(f.fileSwitches, elapsedSec)
            [] k = "codeChurnLocPerMin" -> perMin(f.churnLoc, elapsedSec)]

\* the reset with churnLoc left out
resetWindowKeepChurn(f, t) ==
    [f EXCEPT !.windowStart = t, !.insertedChars = 0, !.backspaces = 0,
              !.undoRedo = 0, !.cursorJumps = 0, !.fileSwitches = 0]

\* snapshot: the "reset window" block
resetWindow(f, t) ==
    [f EXCEPT !.windowStart = t, !.insertedChars = 0, !.backspaces = 0,
              !.undoRedo = 0, !.cursorJumps = 0, !.fileSwitches = 0,
              !.churnLoc = 0]

ZeroVec == [k \in FeatureKeys |-> <<0, 1>>]

\* no snapshot taken yet
NoSnap ==
    [n |-> 0, feats |-> ZeroVec, from |-> NewExtractor(<<1, 1>>, 0), at |-> 0,
     quiet |-> FALSE, touched |-> FALSE]

\* onDidChangeTextDocument
fxTextChanged ==
    /\ fx.started
    /\ events < MaxFxEvents
    /\ events' = events + 1
    /\ \E cs \in ChangeSeqs :
        fx' = [applyChanges(fx, cs) EXCEPT !.lastActivity = now]
    /\ snap' = [snap EXCEPT !.touched = TRUE]
    /\ UNCHANGED <<now, activated, globalState, stats, lastKeyAt, currentFileKey,
                   consecutiveErrors, fileSwitches, lastFileKey, ranMs,
                   unattributed,
                   resetAt>>
    /\ UNCHANGED <<bl, samples, normOut, monVars, extVars>>

\* onDidChangeTextEditorSelection
fxSelectionChanged ==
    /\ fx.started
    /\ events < MaxFxEvents
    /\ events' = events + 1
    /\ \E lineDelta \in {0, 5}, colDelta \in {0, 20} :
        fx' = [fx EXCEPT
                 !.cursorJumps = IF lineDelta >= 5 \/ colDelta >= 20
                                 THEN @ + 1 ELSE @,
                 !.lastActivity = now]
    /\ snap' = [snap EXCEPT !.touched = TRUE]
    /\ UNCHANGED <<now, activated, globalState, stats, lastKeyAt, currentFileKey,
                   consecutiveErrors, fileSwitches, lastFileKey, ranMs,
                   unattributed,
                   resetAt>>
    /\ UNCHANGED <<bl, samples, normOut, monVars, extVars>>

\* onDidChangeActiveTextEditor
fxEditorChanged ==
    /\ fx.started
    /\ events < MaxFxEvents
    /\ events' = events + 1
    /\ fx' = [fx EXCEPT !.fileSwitches = @ + 1, !.lastActivity = now]
    /\ snap' = [snap EXCEPT !.touched = TRUE]
    /\ UNCHANGED <<now, activated, globalState, stats, lastKeyAt, currentFileKey,
                   consecutiveErrors, fileSwitches, lastFileKey, ranMs,
                   unattributed,
                   resetAt>>
    /\ UNCHANGED <<bl, samples, normOut, monVars, extVars>>

\* onDidChangeDiagnostics: the errors of the visible editors are recounted
fxDiagnosticsChanged ==
    /\ fx.started
    /\ events < MaxFxEvents
    /\ events' = events + 1
    /\ \E errors \in 0 .. MaxErrors :
        fx' = [fx EXCEPT !.errorCountWindow = errors]
    /\ snap' = [snap EXCEPT !.touched = TRUE]
    /\ UNCHANGED <<now, activated, globalState, stats, lastKeyAt, currentFileKey,
                   consecutiveErrors, fileSwitches, lastFileKey, ranMs,
                   unattributed,
                   resetAt>>
    /\ UNCHANGED <<bl, samples, normOut, monVars, extVars>>

\* FeatureExtractor.snapshot(), called by Monitor.tick at each window boundary
fxSnapshot ==
    /\ fx.started
    /\ snap.n < MaxSnaps
    /\ snap' = [n |-> snap.n + 1, feats |-> snapshotFeats(fx, now), from |-> fx,
                at |-> now, quiet |-> (snap.n > 0 /\ ~snap.touched),
                touched |-> FALSE]
    /\ fx' = resetWindow(fx, now)
    /\ UNCHANGED <<bl, samples, normOut, dcVars, monVars, extVars>>

\* the state of Part III while the other parts run
InitLib ==
    /\ bl = NewBaseline
    /\ samples = <<>>
    /\ normOut = NoNorm
    /\ fx = NewExtractor(<<60, 1>>, 0)
    /\ snap = NoSnap

(***************************************************************************)
(* Part IV.  AnxietyMLModel, InterventionSystem (src/unnamed/part_006) and *)
(* the upload helper of the activity tracker (src/unnamed/part_001).       *)
(***************************************************************************)
\* a score is an integer number of hundredths: calculateAnxietyScore returns
\* a value between 0 and Math.min(.., 1)
ScoreScale == 100

\* the thresholds the constructor installs when no configuration is passed
DefaultThresholds == [low |-> 30, moderate |-> 50, high |-> 70, critical |-> 85]

AnxietyLevels == {"low", "moderate", "high", "critical"}

\* AnxietyMLModel.determineAnxietyLevel
determineAnxietyLevel(score, thresholds) ==
    IF score >= thresholds.critical THEN "critical"
    ELSE IF score >= thresholds.high THEN "high"
    ELSE IF score >= thresholds.moderate THEN "moderate"
    ELSE "low"

NoPrediction == [called |-> FALSE, score |-> 0, level |-> "low"]

\* mlModel.predict(features) of a model built by new AnxietyMLModel(): the
\* score is any value calculateAnxietyScore can return
predict ==
    /\ \E score \in 0 .. ScoreScale :
        ml' = [called |-> TRUE, score |-> score,
               level |-> determineAnxietyLevel(score, DefaultThresholds)]
    /\ UNCHANGED <<ivCfg, iv, ivNow, upCfg, upReqs, dcVars, monVars, libVars,
                   atVars, viewVars>>

(***************************************************************************)
(* InterventionSystem.  Its clock counts minutes; Date.now() is IvEpoch at *)
(* the start, far from the initial lastInterventionTime of 0.              *)
(***************************************************************************)
IvEpoch == 5

Sensitivities == {"low", "medium", "high"}

\* updateSettings: the minimum interval of a sensitivity, in minutes
\* (300000, 120000 and 60000 ms)
intervalOf(sensitivity) ==
    CASE sensitivity = "low" -> 5
      [] sensitivity = "medium" -> 2
      [] sensitivity = "high" -> 1

\* InterventionSystem.updateSettings under configuration cfg
updateSettings(I, cfg) ==
    [I EXCEPT !.enabled = cfg.enabled,
              !.sensitivity = cfg.sensitivity,
              !.minInterventionInterval = intervalOf(cfg.sensitivity)]

\* new InterventionSystem(): the field initialisers, then updateSettings
NewInterventionSystem(cfg) ==
    updateSettings([interventions |-> <<>>, lastInterventionTime |-> 0,
                    minInterventionInterval |-> 1, enabled |-> TRUE,
                    sensitivity |-> "medium"], cfg)

\* the rate limit with the one-minute interval of the field initialiser,
\* whatever the sensitivity
tooSoonFixed(I, t) == t - I.lastInterventionTime < 1

\* generateIntervention: the rate limit
tooSoon(I, t) == t - I.lastInterventionTime < I.minInterventionInterval

\* generateIntervention: an intervention is created for this call
generates(I, level, t) == I.enabled /\ ~tooSoon(I, t) /\ level # "low"

\* generateIntervention(prediction) at instant t: the object it leaves.  An
\* intervention is carried as its timestamp and level, with the sensitivity
\* in force when it was generated
generateIntervention(I, level, t) ==
    IF generates(I, level, t)
    THEN [I EXCEPT !.interventions =
                        Append(@, [at |-> t, level |-> level,
                                   sensitivity |-> I.sensitivity]),
                   !.lastInterventionTime = t]
    ELSE I

\* a minute passes
ivAdvance ==
    /\ ivNow < IvEpoch + MaxIvTime
    /\ ivNow' = ivNow + 1
    /\ UNCHANGED <<ml, ivCfg, iv, upCfg, upReqs, dcVars, monVars, libVars,
                   atVars, viewVars>>

\* onDidChangeConfiguration of anxietyTracker: updateSettings re-reads it
ivConfigChanged ==
    /\ \E e \in BOOLEAN, sens \in Sensitivities :
        /\ ivCfg' = [enabled |-> e, sensitivity |-> sens]
        /\ ivCfg' # ivCfg
        /\ iv' = updateSettings(iv, ivCfg')
    /\ UNCHANGED <<ml, ivNow, upCfg, upReqs, dcVars, monVars, libVars,
                   atVars, viewVars>>

\* the anxietyTracker.toggleInterventions command: InterventionSystem.toggle
ivToggle ==
    /\ iv' = [iv EXCEPT !.enabled = ~@]
    /\ UNCHANGED <<ml, ivCfg, ivNow, upCfg, upReqs, dcVars, monVars, libVars,
                   atVars, viewVars>>

\* the analysis timer: generateIntervention(prediction), for a prediction of
\* any level
ivGenerate ==
    /\ Len(iv.interventions) < MaxInterventions
    /\ \E level \in AnxietyLevels :
        iv' = generateIntervention(iv, level, ivNow)
    /\ UNCHANGED <<ml, ivCfg, ivNow, upCfg, upReqs, dcVars, monVars, libVars,
                   atVars, viewVars>>

(***************************************************************************)
(* The activity tracker's upload helper.                                   *)
(***************************************************************************)
\* values of activityTracker.autoUpload.endpoint: the default, blanks, a URL
Endpoints == {"", " ", "https://collector.example/upload"}

\* (..).trim()
trim(endpoint) == IF endpoint = " " THEN "" ELSE endpoint

UploadReasons == {"interval", "focus", "manual"}

\* uploadCsvIfEnabled without the test of autoUpload.enabled
sendsUnconditionally(cfg) == trim(cfg.endpoint) # ""

\* uploadCsvIfEnabled: the two early returns are passed
sends(cfg) == cfg.enabled /\ trim(cfg.endpoint) # ""

\* uploadCsvIfEnabled(context, reason, extras) up to its fetch: the request
\* is recorded with the configuration it was sent under
uploadCsvIfEnabled(reason) ==
    /\ Len(upReqs) < MaxUploads
    /\ upReqs' = IF sends(upCfg)
                 THEN Append(upReqs, [reason |-> reason,
                                      endpoint |-> trim(upCfg.endpoint),
                                      cfg |-> upCfg])
                 ELSE upReqs

\* the auto-upload interval timer fires
upInterval ==
    /\ uploadCsvIfEnabled("interval")
    /\ UNCHANGED <<ml, ivCfg, iv, ivNow, upCfg, dcVars, monVars, libVars,
                   atVars, viewVars>>

\* onDidChangeWindowState with focused = true
upFocus ==
    /\ uploadCsvIfEnabled("focus")
    /\ UNCHANGED <<ml, ivCfg, iv, ivNow, upCfg, dcVars, monVars, libVars,
                   atVars, viewVars>>

\* the activityTracker.uploadNow command
uploadNow ==
    /\ uploadCsvIfEnabled("manual")
    /\ UNCHANGED <<ml, ivCfg, iv, ivNow, upCfg, dcVars, monVars, libVars,
                   atVars, viewVars>>

\* the user edits activityTracker.autoUpload.* (the timer is restarted)
upConfigChanged ==
    /\ \E e \in BOOLEAN, ep \in Endpoints :
        /\ upCfg' = [enabled |-> e, endpoint |-> ep]
        /\ upCfg' # upCfg
    /\ UNCHANGED <<ml, ivCfg, iv, ivNow, upReqs, dcVars, monVars, libVars,
                   atVars, viewVars>>

\* the state of Part IV while the other parts run: default configurations
InitExt ==
    /\ ml = NoPrediction
    /\ ivCfg = [enabled |-> TRUE, sensitivity |-> "medium"]
    /\ iv = NewInterventionSystem(ivCfg)
    /\ ivNow = IvEpoch
    /\ upCfg = [enabled |-> FALSE, endpoint |-> ""]
    /\ upReqs = <<>>

(***************************************************************************)
(* Part V.  The activity tracker (src/unnamed/part_001): the closure       *)
(* state of activate(context) with its handlers, its 1-second ticker, the  *)
(* dashboard's pause toggle and the reset command.  It has its own         *)
(* globalState (atStore) and its own clock (atNow), in the units of        *)
(* Part I, with days of AtDayLen units.                                    *)
(***************************************************************************)
\* DAY_KEY(): the day of an instant
DAY_KEY(t) == t \div AtDayLen

AtDays == 0 .. (MaxAtTime \div AtDayLen)

\* the literal built by getStats and by activityTracker.resetToday
AtFreshStats(t) ==
    [ keystrokes |-> 0, activeMs |-> 0, idleMs |-> 0, idleEvents |-> <<>>,
      startedAt |-> t, lastActivityAt |-> t, currentlyIdle |-> FALSE,
      perFile |-> <<>>, interKeyAvgMs |-> NoVal ]

\* getStats(context): the record it returns ...
getStats(store, t) ==
    IF store[DAY_KEY(t)] # NoRec THEN store[DAY_KEY(t)] ELSE AtFreshStats(t)

\* ... and the store it leaves
storeAfterGetStats(store, t) ==
    IF store[DAY_KEY(t)] # NoRec THEN store
    ELSE [store EXCEPT ![DAY_KEY(t)] = AtFreshStats(t)]

\* setStats(context, stats)
setStats(store, s, t) == [store EXCEPT ![DAY_KEY(t)] = s]

\* the active credit of markActivity and of the ticker: the time since
\* lastTick, for a record that is not idle
atCredit(s, lastTick, key, t) ==
    LET delta == t - lastTick
    IN IF ~s.currentlyIdle /\ delta > 0
       THEN [s EXCEPT !.activeMs = @ + delta,
                      !.perFile = IF key # NoKey THEN creditFile(@, key, delta)
                                  ELSE @]
       ELSE s

\* markActivity: an open idle event is closed and a resume event pushed
atCloseIdle(s, t) ==
    LET n == Len(s.idleEvents)
        lastIdle == s.idleEvents[n]
        closes == /\ n > 0
                  /\ lastIdle.type = "idle"
                  /\ lastIdle.durationMs = NoVal
        ev1 == IF closes
               THEN [s.idleEvents EXCEPT ![n].durationMs = t - lastIdle.at]
               ELSE s.idleEvents
    IN IF s.currentlyIdle
       THEN [s EXCEPT !.idleEvents = Append(ev1, [type |-> "resume", at |-> t,
                                                   durationMs |-> NoVal]),
                      !.idleMs = IF closes THEN @ + (t - lastIdle.at) ELSE @,
                      !.currentlyIdle = FALSE]
       ELSE s

\* the body of markActivity on record s (lastTick is set to t by the caller)
atMarkActivityOn(s, lastTick, key, t) ==
    [atCredit(atCloseIdle(s, t), lastTick, key, t) EXCEPT !.lastActivityAt = t]

\* the ticker's idle test and transition
atGoIdle(s, t, idleThresholdMs) ==
    IF ~s.currentlyIdle /\ t - s.lastActivityAt >= idleThresholdMs
    THEN [s EXCEPT !.currentlyIdle = TRUE,
                   !.idleEvents = Append(@, [type |-> "idle", at |-> t,
                                             durationMs |-> NoVal])]
    ELSE s

\* the closure variables of activate(context)
NewTracker(store, t) ==
    [stats |-> getStats(store, t), lastTick |-> t, lastKeyAt |-> NoVal,
     logging |-> TRUE, currentFileKey |-> NoKey]

NoSpans == [pausedInSpan |-> 0, pausedSinceTick |-> 0]

\* the clock advances between two callbacks
atAdvance ==
    /\ \E d \in 1 .. MaxStep :
        /\ atNow + d <= MaxAtTime
        /\ atNow' = atNow + d
        /\ atHist' = IF at.logging THEN atHist
                     ELSE [pausedInSpan |-> atHist.pausedInSpan + d,
                           pausedSinceTick |-> atHist.pausedSinceTick + d]
    /\ UNCHANGED <<at, atStore, atEvents>>
    /\ UNCHANGED <<ml, ivCfg, iv, ivNow, upCfg, upReqs, dcVars, monVars, libVars,
                   viewVars>>

\* onDidChangeTextDocument with contentChanges.length > 0, while logging
atTextChanged ==
    /\ atEvents < MaxAtEvents
    /\ atEvents' = atEvents + 1
    /\ at.logging
    /\ \E key \in FileKeys, changes \in 1 .. MaxChanges :
        LET s0 == getStats(atStore, atNow)
            delta == atNow - at.lastKeyAt
            avg == IF at.lastKeyAt # NoVal
                   THEN IF s0.interKeyAvgMs = NoVal THEN delta
                        ELSE roundAvg(s0.interKeyAvgMs, delta)
                   ELSE s0.interKeyAvgMs
            pf1 == [ensureFileEntry(s0.perFile, key) EXCEPT
                        ![key].keystrokes = @ + changes]
            s1 == [s0 EXCEPT !.keystrokes = @ + changes,
                             !.interKeyAvgMs = avg,
                             !.perFile = pf1]
            s2 == atMarkActivityOn(s1, at.lastTick, key, atNow)
        IN /\ at' = [at EXCEPT !.stats = s2, !.lastTick = atNow,
                               !.lastKeyAt = atNow, !.currentFileKey = key]
           /\ atStore' = setStats(storeAfterGetStats(atStore, atNow), s2, atNow)
    /\ atHist' = NoSpans
    /\ UNCHANGED atNow
    /\ UNCHANGED <<ml, ivCfg, iv, ivNow, upCfg, upReqs, dcVars, monVars, libVars,
                   viewVars>>

\* the selection, active-editor and window-focus handlers, while logging:
\* the current file key is replaced when the event resolves to one
atActivity ==
    /\ atEvents < MaxAtEvents
    /\ atEvents' = atEvents + 1
    /\ at.logging
    /\ \E key \in FileKeys \cup {NoKey} :
        LET s0 == getStats(atStore, atNow)
            key1 == IF key # NoKey THEN key ELSE at.currentFileKey
            s2 == atMarkActivityOn(s0, at.lastTick, key1, atNow)
        IN /\ at' = [at EXCEPT !.stats = s2, !.lastTick = atNow,
                               !.currentFileKey = key1]
           /\ atStore' = setStats(storeAfterGetStats(atStore, atNow), s2, atNow)
    /\ atHist' = NoSpans
    /\ UNCHANGED atNow
    /\ UNCHANGED <<ml, ivCfg, iv, ivNow, upCfg, upReqs, dcVars, monVars, libVars,
                   viewVars>>

\* the idle ticker (setInterval, 1000 ms)
atTicker ==
    /\ LET s0 == getStats(atStore, atNow)
           st0 == storeAfterGetStats(atStore, atNow)
           s1 == atCredit(s0, at.lastTick, at.currentFileKey, atNow)
           s2 == atGoIdle(s1, atNow, IdleMs)
       IN IF at.logging
          THEN /\ at' = [at EXCEPT !.stats = s2, !.lastTick = atNow]
               /\ atStore' = setStats(st0, s2, atNow)
               /\ atHist' = [pausedInSpan |->
                                IF s2.currentlyIdle /\ ~s0.currentlyIdle
                                THEN 0 ELSE atHist.pausedInSpan,
                             pausedSinceTick |-> 0]
          ELSE /\ at' = [at EXCEPT !.stats = s0]
               /\ atStore' = st0
               /\ atHist' = atHist
    /\ UNCHANGED <<atNow, atEvents>>
    /\ UNCHANGED <<ml, ivCfg, iv, ivNow, upCfg, upReqs, dcVars, monVars, libVars,
                   viewVars>>

\* the dashboard posts { type: 'toggle', value }: logging is set, lastTick and
\* stats.lastActivityAt are moved to now.  The record is not saved; whether
\* the stored record sees the write depends on the host's Memento returning
\* the stored object itself or a copy
atToggle ==
    /\ atEvents < MaxAtEvents
    /\ atEvents' = atEvents + 1
    /\ \E value \in BOOLEAN, shared \in BOOLEAN :
        LET s1 == [at.stats EXCEPT !.lastActivityAt = atNow]
            d == DAY_KEY(atNow)
        IN /\ at' = [at EXCEPT !.logging = value, !.lastTick = atNow,
                               !.stats = s1]
           /\ atStore' = IF shared /\ atStore[d] = at.stats
                         THEN [atStore EXCEPT ![d] = s1]
                         ELSE atStore
    /\ atHist' = [atHist EXCEPT !.pausedSinceTick = 0]
    /\ UNCHANGED atNow
    /\ UNCHANGED <<ml, ivCfg, iv, ivNow, upCfg, upReqs, dcVars, monVars, libVars,
                   viewVars>>

\* activityTracker.resetToday, confirmed
atResetToday ==
    /\ atEvents < MaxAtEvents
    /\ atEvents' = atEvents + 1
    /\ at' = [at EXCEPT !.stats = AtFreshStats(atNow), !.lastKeyAt = NoVal]
    /\ atStore' = setStats(atStore, AtFreshStats(atNow), atNow)
    /\ atHist' = [atHist EXCEPT !.pausedInSpan = 0]
    /\ UNCHANGED atNow
    /\ UNCHANGED <<ml, ivCfg, iv, ivNow, upCfg, upReqs, dcVars, monVars, libVars,
                   viewVars>>

\* the state after activate(context) of the activity tracker at instant 0
InitAt ==
    /\ atNow = 0
    /\ atStore = [d \in AtDays |-> IF d = 0 THEN AtFreshStats(0) ELSE NoRec]
    /\ at = NewTracker(atStore, 0)
    /\ atHist = NoSpans
    /\ atEvents = 0

(***************************************************************************)
(* Part VI.  The interventions array of the day's record and its read-only *)
(* views: DataCollector.recordIntervention, the View Interventions command *)
(* and Dashboard.updateDashboard.  An entry is carried by its timestamp.   *)
(***************************************************************************)
Stamps == 1 .. MaxStamp

RECURSIVE insertDesc(_, _)
\* x placed after every element that is not smaller than it
insertDesc(sorted, x) ==
    IF sorted = <<>> THEN <<x>>
    ELSE IF Head(sorted) >= x THEN <<Head(sorted)>> \o insertDesc(Tail(sorted), x)
    ELSE <<x>> \o sorted

RECURSIVE sortDesc(_)
\* Array.prototype.sort((a, b) => b.timestamp - a.timestamp): stable, newest
\* first
sortDesc(arr) ==
    IF arr = <<>> THEN <<>>
    ELSE insertDesc(sortDesc(SubSeq(arr, 1, Len(arr) - 1)), arr[Len(arr)])

\* the array a view is left holding after stats.interventions.sort(..): sort
\* works in place on the array of the object that getStats copied shallowly.
\* The array is the stored record's own when the host's Memento hands out
\* the stored object, and a copy of it otherwise
arrayAfterView(arr, shared) == IF shared THEN sortDesc(arr) ELSE arr

\* DataCollector.recordIntervention(intervention): Date.now() never runs
\* backwards
recordIntervention ==
    /\ Len(recordedIv) < MaxRecorded
    /\ \E t \in Stamps :
        /\ recordedIv # <<>> => t >= recordedIv[Len(recordedIv)]
        /\ interventions' = Append(interventions, t)
        /\ recordedIv' = Append(recordedIv, t)
    /\ UNCHANGED <<ml, ivCfg, iv, ivNow, upCfg, upReqs, atVars, dcVars, monVars,
                   libVars>>

\* the anxietyTracker.showInterventions command (the 10 newest)
showInterventions ==
    /\ \E shared \in BOOLEAN :
        interventions' = arrayAfterView(interventions, shared)
    /\ UNCHANGED recordedIv
    /\ UNCHANGED <<ml, ivCfg, iv, ivNow, upCfg, upReqs, atVars, dcVars, monVars,
                   libVars>>

\* Dashboard.updateDashboard: getRecentInterventions(stats, 5)
updateDashboard ==
    /\ \E shared \in BOOLEAN :
        interventions' = arrayAfterView(interventions, shared)
    /\ UNCHANGED recordedIv
    /\ UNCHANGED <<ml, ivCfg, iv, ivNow, upCfg, upReqs, atVars, dcVars, monVars,
                   libVars>>

\* a fresh day's record: interventions: []
InitViews ==
    /\ interventions = <<>>
    /\ recordedIv = <<>>

(***************************************************************************)
(* Specifications.                                                         *)
(***************************************************************************)
\* the state after activate(context) of the anxietyTracker extension at
\* instant 0, before anxdet.start has ever run
Init ==
    /\ InitCollector
    /\ MonitorIdle
    /\ config = [enableLogging |-> TRUE, baselineWindows |-> 10,
                 scoreThreshold |-> DefaultThreshold, consecutiveWindows |-> 2]
    /\ logFile = NoFile
    /\ InitLib
    /\ InitExt
    /\ InitAt
    /\ InitViews

\* the anxietyTracker extension with its DataCollector
Next ==
    \/ Advance
    \/ markActivity
    \/ checkIdle
    \/ recordKeystroke
    \/ recordError
    \/ recordSuccess
    \/ recordCompileAttempt
    \/ resetStats
    \/ resetSessionDismissed
    \/ deactivate
    \/ activate

Spec == Init /\ [][Next]_vars

\* the time accounting alone: activity and idle checks under a running clock
NextAccounting ==
    \/ Advance
    \/ markActivity
    \/ checkIdle

SpecAccounting == Init /\ [][NextAccounting]_vars

\* the activity and lifecycle events of the anxietyTracker extension with its
\* idle-check interval timer: while the extension is active the timer keeps
\* firing, so a check that would change the record is eventually run
NextIdleCheck ==
    \/ Advance
    \/ markActivity
    \/ checkIdle
    \/ recordKeystroke
    \/ deactivate
    \/ activate

SpecIdleCheck == Init /\ [][NextIdleCheck]_vars /\ WF_vars(checkIdle)

\* a Baseline object under every sequence of add and normalize calls
NextBaseline ==
    \/ baselineAddCall
    \/ baselineNormalizeCall

SpecBaseline == Init /\ [][NextBaseline]_vars

\* a started FeatureExtractor, for every configured windowSeconds, under its
\* four event handlers, a running clock and the snapshots of the window timer
InitExtractor ==
    /\ InitCollector
    /\ MonitorIdle
    /\ config = [enableLogging |-> TRUE, baselineWindows |-> 10,
                 scoreThreshold |-> DefaultThreshold, consecutiveWindows |-> 2]
    /\ logFile = NoFile
    /\ bl = NewBaseline
    /\ samples = <<>>
    /\ normOut = NoNorm
    /\ fx \in {startExtractor(NewExtractor(ws, 0), 0) : ws \in WindowSecondsSet}
    /\ snap = NoSnap
    /\ InitExt
    /\ InitAt
    /\ InitViews

NextExtractor ==
    \/ Advance
    \/ fxTextChanged
    \/ fxSelectionChanged
    \/ fxEditorChanged
    \/ fxDiagnosticsChanged
    \/ fxSnapshot

SpecExtractor == InitExtractor /\ [][NextExtractor]_vars

\* a started Monitor that logs every window (no calibration, trigger on every
\* window at threshold), the log file holding its header: the window ticks
\* and the file operations of Monitor.log in every interleaving
InitLogging ==
    /\ InitCollector
    /\ config = [enableLogging |-> TRUE, baselineWindows |-> 0,
                 scoreThreshold |-> DefaultThreshold, consecutiveWindows |-> 1]
    /\ monitor = 1
    /\ nMon = 1
    /\ mon = [m \in Monitors |->
                IF m = 1
                THEN [startTimer(NewMonitor(config)) EXCEPT !.logUri = TRUE]
                ELSE NoMonitor]
    /\ logFile = [exists |-> TRUE, content |-> <<HeaderLine>>]
    /\ logCalls = {}
    /\ rowSeq = 0
    /\ faults = 0
    /\ hist = <<>>
    /\ recovered = {}
    /\ lastReport = NoReport
    /\ InitLib
    /\ InitExt
    /\ InitAt
    /\ InitViews

NextLogging ==
    \/ \E m \in Monitors : tick(m)
    \/ \E id \in RowIds : logReadDone(CallOf(id))
    \/ \E id \in RowIds : logWriteDone(CallOf(id))
    \/ \E id \in RowIds : logCatchWriteDone(CallOf(id))

SpecLogging == InitLogging /\ [][NextLogging]_vars

\* the same Monitor with its dashboard open: self-report labels arrive at
\* any moment between the ticks and the file operations
NextSelfReport ==
    \/ NextLogging
    \/ \E m \in Monitors : selfReport(m)

SpecSelfReport == InitLogging /\ [][NextSelfReport]_vars

\* a started Monitor with logging disabled, for every configuration of
\* baselineWindows and consecutiveWindows: the window ticks alone
InitTrigger ==
    /\ InitCollector
    /\ config \in [enableLogging : {FALSE},
                   baselineWindows : 0 .. MaxBaseline,
                   scoreThreshold : {DefaultThreshold},
                   consecutiveWindows : 0 .. MaxK]
    /\ monitor = 1
    /\ nMon = 1
    /\ mon = [m \in Monitors |->
                IF m = 1
                THEN [startTimer(NewMonitor(config)) EXCEPT !.logUri = TRUE]
                ELSE NoMonitor]
    /\ logFile = [exists |-> TRUE, content |-> <<HeaderLine>>]
    /\ logCalls = {}
    /\ rowSeq = 0
    /\ faults = 0
    /\ hist = <<>>
    /\ recovered = {}
    /\ lastReport = NoReport
    /\ InitLib
    /\ InitExt
    /\ InitAt
    /\ InitViews

NextTrigger == \E m \in Monitors : tick(m)

SpecTrigger == InitTrigger /\ [][NextTrigger]_vars

\* the AnxDet extension with logging enabled: start and stop commands, window
\* ticks and the log file operations in every interleaving
InitLifecycle ==
    /\ InitCollector
    /\ MonitorIdle
    /\ config = [enableLogging |-> TRUE, baselineWindows |-> 1,
                 scoreThreshold |-> DefaultThreshold, consecutiveWindows |-> 1]
    /\ logFile \in {NoFile, [exists |-> TRUE, content |-> <<HeaderLine>>]}
    /\ InitLib
    /\ InitExt
    /\ InitAt
    /\ InitViews

NextLifecycle ==
    \/ startCmd
    \/ \E m \in Monitors : consentAnswered(m)
    \/ \E m \in Monitors : configUpdated(m)
    \/ \E m \in Monitors : createDirDone(m)
    \/ \E m \in Monitors : statDone(m)
    \/ \E m \in Monitors : writeHeaderDone(m)
    \/ stopCmd
    \/ \E m \in Monitors : tick(m)
    \/ \E id \in RowIds : logReadDone(CallOf(id))
    \/ \E id \in RowIds : logWriteDone(CallOf(id))
    \/ \E id \in RowIds : logCatchWriteDone(CallOf(id))

SpecLifecycle == InitLifecycle /\ [][NextLifecycle]_vars

\* an AnxietyMLModel with its default configuration under predict calls
NextLevels == predict

SpecLevels == Init /\ [][NextLevels]_vars

\* an InterventionSystem under a running clock, configuration changes, the
\* toggle command and the analysis timer
NextInterventions ==
    \/ ivAdvance
    \/ ivConfigChanged
    \/ ivToggle
    \/ ivGenerate

SpecInterventions == Init /\ [][NextInterventions]_vars

\* the activity tracker's three upload triggers under every configuration of
\* autoUpload.enabled and autoUpload.endpoint, starting from the defaults
NextUpload ==
    \/ upInterval
    \/ upFocus
    \/ uploadNow
    \/ upConfigChanged

SpecUpload == Init /\ [][NextUpload]_vars

\* interventions are recorded and viewed in every order
NextViews ==
    \/ recordIntervention
    \/ showInterventions
    \/ updateDashboard

SpecViews == Init /\ [][NextViews]_vars

\* the activity tracker under a running clock: its handlers, the ticker, the
\* pause toggle and the reset command in every order
NextTracker ==
    \/ atAdvance
    \/ atTextChanged
    \/ atActivity
    \/ atTicker
    \/ atToggle
    \/ atResetToday

SpecTracker == Init /\ [][NextTracker]_vars

(***************************************************************************)
(* Properties of the time accounting (Part I).                             *)
(***************************************************************************)
\* C1: across any interleaving of markActivity and checkIdle under a
\* non-decreasing clock, activeMs + idleMs never exceeds now - startedAt.
C1_ActivePlusIdleBounded ==
    stats.activeMs + stats.idleMs <= now - stats.startedAt

\* idle events of a record whose durationMs is still undefined
OpenIdle(s) ==
    {i \in 1 .. Len(s.idleEvents) :
        s.idleEvents[i].type = "idle" /\ s.idleEvents[i].durationMs = NoVal}

\* C2: after any sequence of DataCollector operations at most one idle event
\* has an undefined durationMs, and one exists only while currentlyIdle holds.
C2_SingleOpenIdle ==
    /\ Cardinality(OpenIdle(stats)) <= 1
    /\ OpenIdle(stats) # {} => stats.currentlyIdle

\* C8: time during which the extension was not running is never credited to
\* activeMs: the active time of the record never exceeds the time the
\* extension has been running since the record was created.
C8_DowntimeNotCredited ==
    stats.activeMs <= ranMs

\* C9: the store is keyed by day: the record under a day key was created on
\* that day (zeroed, startedAt = first reference), so no operation writes an
\* earlier day's totals under a later day key.
C9_StoreKeyedByDay ==
    \A d \in Days :
        globalState[d] # NoRec => getDayKey(globalState[d].startedAt) = d

RECURSIVE SumActive(_)
SumActive(pf) ==
    IF DOMAIN pf = {} THEN 0
    ELSE LET k == CHOOSE x \in DOMAIN pf : TRUE
         IN pf[k].activeMs + SumActive([j \in DOMAIN pf \ {k} |-> pf[j]])

\* C10: in every record the per-file activeMs sum to at most activeMs, with
\* equality when every active interval was credited with a current file key.
C10_PerFileSum ==
    /\ SumActive(stats.perFile) <= stats.activeMs
    /\ \A d \in Days :
        globalState[d] # NoRec =>
            SumActive(globalState[d].perFile) <= globalState[d].activeMs
    /\ ~unattributed => SumActive(stats.perFile) = stats.activeMs

\* active time was credited to two files and all of it is attributed
C10_Witness ==
    /\ ~unattributed
    /\ stats.activeMs >= 2
    /\ \A k \in FileKeys : k \in DOMAIN stats.perFile /\ stats.perFile[k].activeMs > 0

\* the record checkIdle examines: the stored record of the current day, or
\* the zeroed record created for a day that has none yet
TodaysRecord ==
    IF globalState[getDayKey(now)] # NoRec
    THEN globalState[getDayKey(now)] ELSE FreshStats(now)

C11_Step ==
    checkIdle =>
        LET s0 == TodaysRecord
            n == Len(s0.idleEvents)
        IN IF ~s0.currentlyIdle /\ now - s0.lastActivityAt >= IdleMs
           THEN /\ stats'.currentlyIdle
                /\ Len(stats'.idleEvents) = n + 1
                /\ SubSeq(stats'.idleEvents, 1, n) = s0.idleEvents
                /\ stats'.idleEvents[n + 1].type = "idle"
                /\ stats'.idleEvents[n + 1].at = now
                /\ stats'.idleEvents[n + 1].durationMs = NoVal
                /\ [stats' EXCEPT !.currentlyIdle = FALSE,
                                  !.idleEvents = s0.idleEvents] = s0
                /\ globalState'[getDayKey(now)] = stats'
           ELSE /\ stats' = s0
                /\ globalState'[getDayKey(now)] = s0

\* C11: checkIdle turns the record idle exactly when it is not idle and
\* now - lastActivityAt >= idleThresholdMs: it sets currentlyIdle and appends
\* one idle event with at = now and no durationMs, changing nothing else; in
\* every other case the record is left as it was, so a check while idle adds
\* no event.
C11_CheckIdleContract ==
    [][C11_Step]_vars

\* an idle span was opened exactly when the threshold was reached
C11_Witness ==
    /\ stats.currentlyIdle
    /\ Len(stats.idleEvents) = 1
    /\ stats.idleEvents[1].type = "idle"
    /\ stats.idleEvents[1].at = stats.lastActivityAt + IdleMs
    /\ now > stats.idleEvents[1].at

C12_Step ==
    (markActivity /\ stats.currentlyIdle /\ OpenIdle(stats) # {}) =>
        LET i == CHOOSE j \in OpenIdle(stats) : TRUE
            n == Len(stats.idleEvents)
        IN /\ stats'.idleEvents[i].durationMs = now - stats.idleEvents[i].at
           /\ stats'.idleMs = stats.idleMs + (now - stats.idleEvents[i].at)
           /\ Len(stats'.idleEvents) = n + 1
           /\ stats'.idleEvents[n + 1].type = "resume"
           /\ ~stats'.currentlyIdle

\* C12: whenever markActivity runs while the record is idle it closes the
\* open idle event with durationMs = now - at, adds that amount to idleMs,
\* appends a resume event and clears currentlyIdle.
C12_ActivityClosesIdle ==
    [][C12_Step]_vars

\* an idle record leaves the idle state only through an activity event, or by
\* being replaced (a reset, or the first reference on a new day), and an
\* activity event always leaves the record active
C13_Step ==
    /\ (stats.currentlyIdle /\ ~stats'.currentlyIdle) =>
            \/ markActivity
            \/ recordKeystroke
            \/ stats'.startedAt # stats.startedAt
    /\ (markActivity \/ recordKeystroke) => ~stats'.currentlyIdle

\* the extension runs and the record has seen no activity for the threshold
C13_Due ==
    /\ activated
    /\ ~stats.currentlyIdle
    /\ now - stats.lastActivityAt >= IdleMs

C13_Settled ==
    \/ stats.currentlyIdle
    \/ now - stats.lastActivityAt < IdleMs
    \/ ~activated

\* C13: when no activity has occurred for the idle threshold while the
\* extension runs, the record becomes idle at a following idle check (unless
\* activity or a stop comes first), it stays idle until the next activity
\* event, and that event makes it active again.
C13_IdleEventually ==
    [][C13_Step]_vars /\ (C13_Due ~> C13_Settled)

\* the record went idle at a check and an activity event resumed it
C13_Witness ==
    /\ Len(stats.idleEvents) >= 2
    /\ stats.idleEvents[1].type = "idle"
    /\ stats.idleEvents[1].durationMs # NoVal
    /\ stats.idleEvents[2].type = "resume"
    /\ ~stats.currentlyIdle

(***************************************************************************)
(* Properties of Baseline and Welford (exact rational arithmetic).         *)
(***************************************************************************)
RECURSIVE SumOf(_, _)
SumOf(seq, k) ==
    IF seq = <<>> THEN <<0, 1>> ELSE RAdd(Head(seq)[k], SumOf(Tail(seq), k))

\* first pass: the arithmetic mean of feature k over the samples
BatchMean(seq, k) == RDivInt(SumOf(seq, k), Len(seq))

RECURSIVE SumSqDev(_, _, _)
SumSqDev(seq, k, mean) ==
    IF seq = <<>> THEN <<0, 1>>
    ELSE LET d == RSub(Head(seq)[k], mean)
         IN RAdd(RMul(d, d), SumSqDev(Tail(seq), k, mean))

\* second pass: the sum of squared deviations from that mean
BatchM2(seq, k) == SumSqDev(seq, k, BatchMean(seq, k))

\* C14: after every sequence of Baseline.add calls each estimator's mean is
\* the arithmetic mean of its samples, its m2 their sum of squared deviations
\* from the mean, and from two samples on its variance (std squared) is the
\* two-pass sample variance m2 / (n - 1); the samples 10, 20 of keysPerMin
\* give mean 15 and variance 50.
C14_WelfordIsBatch ==
    /\ Len(samples) >= 1 =>
         \A k \in FeatureKeys :
            /\ bl[k].mean = BatchMean(samples, k)
            /\ bl[k].m2 = BatchM2(samples, k)
            /\ Len(samples) >= 2 =>
                 getStdSquared(bl[k]) =
                     RDivInt(BatchM2(samples, k), Len(samples) - 1)
    /\ (Len(samples) = 2 /\ samples[1]["keysPerMin"] = <<10, 1>>
                         /\ samples[2]["keysPerMin"] = <<20, 1>>)
         => /\ bl["keysPerMin"].mean = <<15, 1>>
            /\ getStdSquared(bl["keysPerMin"]) = <<50, 1>>

\* the samples 10, 20, 15 of keysPerMin have been added
C14_Witness ==
    /\ Len(samples) = 3
    /\ samples[1]["keysPerMin"] = <<10, 1>>
    /\ samples[2]["keysPerMin"] = <<20, 1>>
    /\ samples[3]["keysPerMin"] = <<15, 1>>
    /\ bl["keysPerMin"].m2 = <<50, 1>>

\* C15: in any baseline state, normalize applied to the vector of the current
\* means returns 0 for every feature key.
C15_NormalizeMeanIsZero ==
    (normOut.called /\ normOut.input = MeanVec(bl)) =>
        \A k \in FeatureKeys : normOut.out[k].sgn = 0 /\ normOut.out[k].sq = <<0, 1>>

\* normalize was applied to a non-zero mean vector of a baseline that has a
\* feature with positive variance and a feature with zero variance
C15_Witness ==
    /\ normOut.called
    /\ normOut.input = MeanVec(bl)
    /\ bl["keysPerMin"].mean # <<0, 1>>
    /\ bl["keysPerMin"].m2 # <<0, 1>>
    /\ bl["errorsPerMin"].m2 = <<0, 1>>
    /\ normOut.out["errorsPerMin"].eps
    /\ Len(samples) >= 2

C16_Step ==
    /\ BaselineCount(bl') >= BaselineCount(bl)
    /\ samples' # samples => BaselineCount(bl') = BaselineCount(bl) + 1

\* C16: count() never decreases and grows by exactly 1 per add call, and all
\* eight estimators hold the same sample count, equal to count().
C16_CountShared ==
    /\ [][C16_Step]_vars
    /\ [](\A k \in FeatureKeys : bl[k].n = BaselineCount(bl))
    /\ [](BaselineCount(bl) = Len(samples))

\* three vectors have been added
C16_Witness ==
    /\ Len(samples) = 3
    /\ BaselineCount(bl) = 3

(***************************************************************************)
(* Properties of FeatureExtractor.snapshot.  snap.from is the extractor as *)
(* the last snapshot found it, snap.at the instant of that snapshot.       *)
(***************************************************************************)
\* the raw counter behind each feature other than pauseRatio
RawOf(f, k) ==
    CASE k = "keysPerMin" -> f.insertedChars
      [] k = "backspacesPerMin" -> f.backspaces
      [] k = "errorsPerMin" -> f.errorCountWindow
      [] k = "undoRedoPerMin" -> f.undoRedo
      [] k = "cursorJumpsPerMin" -> f.cursorJumps
      [] k = "fileSwitchesPerMin" -> f.fileSwitches
      [] k = "codeChurnLocPerMin" -> f.churnLoc

\* the rational v equals raw * 60 / max(1, elapsedSeconds), for a window of
\* elapsedMs milliseconds
IsPerMinute(v, raw, elapsedMs) ==
    IF elapsedMs <= 1000
    THEN v[1] = raw * 60 * v[2]
    ELSE v[1] * elapsedMs = raw * 60 * 1000 * v[2]

SnapElapsedMs == (snap.at - snap.from.windowStart) * UnitMs

SnapIdleMs == (snap.at - snap.from.lastActivity) * UnitMs

RateKeys == FeatureKeys \ {"pauseRatio", "errorsPerMin"}

C18_AllReset_Step ==
    fxSnapshot =>
        /\ fx'.windowStart = now
        /\ \A k \in FeatureKeys \ {"pauseRatio"} : RawOf(fx', k) = 0

\* C18 as stated: snapshot resets every accumulator and the window start, and
\* a snapshot that follows a snapshot with no event in between reports zero
\* for every feature derived from a counter.
C18_AllCountersReset ==
    /\ [][C18_AllReset_Step]_vars
    /\ [](snap.quiet =>
            \A k \in FeatureKeys \ {"pauseRatio"} : snap.feats[k] = <<0, 1>>)

C18_Reset_Step ==
    fxSnapshot =>
        /\ fx'.windowStart = now
        /\ \A k \in RateKeys : RawOf(fx', k) = 0
        /\ fx'.errorCountWindow = fx.errorCountWindow
        /\ fx'.lastActivity = fx.lastActivity

\* C18 amended: snapshot resets the window start and the six accumulators
\* insertedChars, backspaces, undoRedo, cursorJumps, fileSwitches and
\* churnLoc, and keeps errorCountWindow and lastActivity; a snapshot that
\* follows a snapshot with no event in between reports zero for every
\* per-minute rate, and errorsPerMin reports the carried error count.
C18_WindowReset ==
    /\ [][C18_Reset_Step]_vars
    /\ [](snap.quiet =>
            /\ \A k \in RateKeys : snap.feats[k] = <<0, 1>>
            /\ snap.feats["errorsPerMin"] = <<snap.from.errorCountWindow, 1>>)

\* a snapshot with no event since the previous one, which had seen events
C18_Witness ==
    /\ snap.n = 2
    /\ snap.quiet
    /\ events >= 2
    /\ snap.from.errorCountWindow > 0
    /\ snap.from.lastActivity > 0

NonNegative(v) == v[1] >= 0 /\ v[2] > 0

\* the rational v equals min(1, num / den), for num >= 0 and den > 0
IsCappedRatio(v, num, den) ==
    IF num >= den THEN v = <<1, 1>> ELSE v[1] * den = num * v[2]

PostTicks == SelectSeq(hist, LAMBDA h : ~h.calibrating)

AllAtThreshold ==
    \A i \in 1 .. Len(PostTicks) : PostTicks[i].score = mon[1].threshold

\* C3: on a stream of windows scoring exactly at threshold, with
\* consecutiveWindows = K >= 1, the trigger fires exactly on the windows
\* K, 2K, 3K, ... and the streak is 0 after each firing.
C3_TriggerEveryKth ==
    LET K == mon[1].consecutiveReq
    IN (K >= 1 /\ AllAtThreshold) =>
        /\ \A i \in 1 .. Len(PostTicks) :
            /\ PostTicks[i].triggered <=> (i % K = 0)
            /\ PostTicks[i].aboveCount = i % K

\* with K = 2 the trigger has fired on windows 2 and 4 of an at-threshold stream
C3_Witness ==
    /\ mon[1].consecutiveReq = 2
    /\ AllAtThreshold
    /\ Len(PostTicks) >= 4
    /\ PostTicks[2].triggered
    /\ PostTicks[4].triggered

\* C4: a window scoring below threshold resets the streak to 0, a trigger
\* needs consecutiveWindows uninterrupted at-or-above-threshold windows since
\* the last below-threshold window or trigger, and with threshold 3.0,
\* consecutiveWindows 2 and scores 4.0, 1.0, 4.0, 4.0 only window 4 triggers.
C4_BelowResetsStreak ==
    LET K == mon[1].consecutiveReq
        T == mon[1].threshold
        P == PostTicks
    IN /\ \A i \in 1 .. Len(P) : P[i].score < T => P[i].aboveCount = 0
       /\ \A i \in 1 .. Len(P) :
            (P[i].triggered /\ K >= 1) =>
                /\ i >= K
                /\ \A j \in (i - K + 1) .. i :
                    /\ P[j].score >= T
                    /\ j < i => ~P[j].triggered
       /\ (K = 2 /\ T = 30 /\ Len(P) = 4
              /\ <<P[1].score, P[2].score, P[3].score, P[4].score>>
                    = <<40, 10, 40, 40>>)
            => <<P[1].triggered, P[2].triggered, P[3].triggered, P[4].triggered>>
                    = <<FALSE, FALSE, FALSE, TRUE>>

\* the scenario 4.0, 1.0, 4.0, 4.0 has been scored with K = 2
C4_Witness ==
    /\ mon[1].consecutiveReq = 2
    /\ mon[1].threshold = 30
    /\ Len(PostTicks) = 4
    /\ <<PostTicks[1].score, PostTicks[2].score, PostTicks[3].score,
         PostTicks[4].score>> = <<40, 10, 40, 40>>

\* what one tick of monitor m must do, by the baseline count it finds
C5_Step ==
    Len(hist') = Len(hist) + 1 =>
        LET h == hist'[Len(hist')]
            m == h.m
            c == mon[m].baseline["keysPerMin"].n
        IN IF c < mon[m].baselineWindows
           THEN /\ h.calibrating
                /\ h.score = 0
                /\ ~h.triggered
                /\ mon'[m].aboveCount = mon[m].aboveCount
                /\ \E f \in FeatVecs :
                    mon'[m].baseline = BaselineAdd(mon[m].baseline, f)
           ELSE /\ ~h.calibrating
                /\ mon'[m].baseline = mon[m].baseline

TicksOf(m) == Len(SelectSeq(hist, LAMBDA h : h.m = m))

\* the baseline holds exactly the first baselineWindows windows
C5_Absorbed ==
    \A m \in Monitors :
        mon[m].baseline["keysPerMin"].n =
            IF TicksOf(m) < mon[m].baselineWindows
            THEN TicksOf(m) ELSE mon[m].baselineWindows

\* C5: calibration is exactly the ticks that find baseline.count() below
\* baselineWindows: such a tick adds the window to the baseline, reports
\* score 0 and no trigger and keeps the streak; every other tick scores and
\* leaves the baseline as it is, so the baseline absorbs exactly the first
\* baselineWindows windows.
C5_CalibrationPhase ==
    [][C5_Step]_vars /\ []C5_Absorbed

\* two calibration ticks followed by a scoring tick
C5_Witness ==
    /\ mon[1].baselineWindows = 2
    /\ Len(hist) >= 3
    /\ hist[1].calibrating
    /\ hist[2].calibrating
    /\ ~hist[3].calibrating

\* C6: once anxdet.stop has run no Monitor.tick executes until a later
\* anxdet.start: a tick only runs while a monitor is started.
C6_NoTickAfterStop ==
    [][Len(hist') = Len(hist) + 1 => monitor # 0]_vars

\* C7: after Monitor.dispose of a started monitor (its timer cleared) the
\* buffer holds no unpersisted row, once no flush of that monitor is in
\* flight any more.
C7_StopFlushesBuffer ==
    \A m \in Monitors :
        (/\ mon[m].disposed
         /\ mon[m].pc = "started"
         /\ ~mon[m].timer
         /\ ~\E c \in logCalls : c.m = m)
            => mon[m].csvBuffer = <<>>

C20_Step ==
    \A id \in RowIds :
        LET c == CallOf(id)
            c2 == CallOf(id)'
        IN /\ (c.pc = "read" /\ c2 # c) => c2.pc \in {"write", "catchWrite"}
           /\ (c.pc = "read" /\ c2.pc = "catchWrite") =>
                /\ c2.readFailed
                /\ c2.payload = mon[c.m].csvBuffer
                /\ UNCHANGED <<logFile, mon>>
           /\ (c.pc = "catchWrite" /\ c.readFailed /\ c2.pc = "none"
                    /\ faults' = faults) =>
                /\ logFile' = [exists |-> TRUE, content |-> c.payload]
                /\ mon'[c.m].csvBuffer = <<>>
                /\ id \in recovered'

IsPrefix(s, t) ==
    /\ Len(s) <= Len(t)
    /\ \A i \in 1 .. Len(s) : t[i] = s[i]

HeaderCount(content) ==
    Cardinality({i \in 1 .. Len(content) : content[i].kind = "header"})

\* C21: the CSV log is append-only.  Once initLogging has run the file starts
\* with the header line, which occurs exactly once, and every step of a
\* Monitor.log call leaves the bytes written before as a prefix of the file.
C21_AppendOnly ==
    /\ [](/\ logFile.exists
          /\ Len(logFile.content) >= 1
          /\ logFile.content[1] = HeaderLine
          /\ HeaderCount(logFile.content) = 1)
    /\ [][IsPrefix(logFile.content, logFile'.content)]_vars

(***************************************************************************)
(* Properties of the day record (Part I): unattributed activity, lazy      *)
(* creation, reset.                                                        *)
(***************************************************************************)
C22_Step ==
    (markActivity /\ currentFileKey = NoKey) =>
        /\ stats'.activeMs = stats.activeMs + (now - stats.lastActivityAt)
        /\ stats'.perFile = stats.perFile
        /\ stats'.lastActivityAt = now
        /\ globalState'[getDayKey(now)] = stats'

\* C22: when markActivity runs while no current file key is known, the time
\* since the last activity is still added to the aggregate activeMs, perFile
\* is left exactly as it was, and the call completes (lastActivityAt is
\* advanced and the record saved).
C22_UnattributedActivity ==
    [][C22_Step]_vars

\* a positive interval was credited to the aggregate with no file to charge
C22_Witness ==
    /\ unattributed
    /\ currentFileKey = NoKey
    /\ stats.activeMs > 0
    /\ stats.perFile = <<>>
    /\ stats.lastActivityAt = now

\* C23: getOrCreateStats is lazy and idempotent.  With no record stored for
\* the day it returns, and stores, a record with every counter zero, no idle
\* events, no per-file entries, not idle, startedAt = lastActivityAt = now;
\* with a record stored it returns that record and leaves the store as it
\* is.  No other day's record is touched, and a second call returns the
\* record of the first and changes nothing.
C23_GetOrCreateLazy ==
    LET d == getDayKey(now)
        r == getOrCreateStats(globalState, now)
        g == storeAfterGet(globalState, now)
    IN /\ globalState[d] = NoRec =>
            /\ r.keystrokes = 0 /\ r.activeMs = 0 /\ r.idleMs = 0
            /\ r.compileAttempts = 0 /\ r.errorCount = 0
            /\ r.fileSwitches = 0
            /\ r.idleEvents = <<>> /\ r.perFile = <<>>
            /\ ~r.currentlyIdle
            /\ r.startedAt = now /\ r.lastActivityAt = now
            /\ g[d] = r
       /\ globalState[d] # NoRec =>
            /\ r = globalState[d]
            /\ g = globalState
       /\ \A e \in Days \ {d} : g[e] = globalState[e]
       /\ getOrCreateStats(g, now) = r
       /\ storeAfterGet(g, now) = g

\* the first handler of a new day created the day's record and kept the
\* earlier day's; a later handler got that record back and added to it
C23_Witness ==
    /\ getDayKey(now) = 1
    /\ globalState[0] # NoRec
    /\ globalState[0].activeMs > 0
    /\ globalState[1] # NoRec
    /\ globalState[1].startedAt = DayLen
    /\ now > DayLen
    /\ stats = globalState[1]
    /\ stats.compileAttempts = 1
    /\ stats.idleEvents[1].at = now

C24_Step ==
    /\ resetSessionDismissed => UNCHANGED <<stats, globalState>>
    /\ resetStats =>
            /\ stats'.keystrokes = 0 /\ stats'.activeMs = 0
            /\ stats'.idleMs = 0 /\ stats'.compileAttempts = 0
            /\ stats'.errorCount = 0 /\ stats'.fileSwitches = 0
            /\ stats'.idleEvents = <<>> /\ stats'.perFile = <<>>
            /\ ~stats'.currentlyIdle
            /\ stats'.startedAt = now /\ stats'.lastActivityAt = now
            /\ globalState'[getDayKey(now)] = stats'
    /\ (/\ getDayKey(stats'.startedAt) = getDayKey(stats.startedAt)
        /\ stats'.startedAt # stats.startedAt) => resetStats

\* C24: today's record is wiped only on explicit confirmation.  A dismissed
\* prompt leaves the record as it is; a confirmed reset leaves every counter
\* zero, no idle events, no per-file entries, not idle, startedAt =
\* lastActivityAt = the reset time; no other step replaces the day's record;
\* and from a reset on, activeMs + idleMs <= now - startedAt.
C24_ResetOnConfirmation ==
    /\ [][C24_Step]_vars
    /\ [](resetAt # NoVal =>
            stats.activeMs + stats.idleMs <= now - stats.startedAt)

(***************************************************************************)
(* Properties of Baseline.normalize (Part III): the divisor.               *)
(***************************************************************************)
\* C25: Baseline.normalize never divides by zero.  For every estimator of a
\* baseline the standard deviation is taken as 1 below two samples, the
\* divisor is max(1e-6, std): either the floor 1e-6, which is the case for a
\* zero variance, or a std that is itself positive; and every value normalize
\* returns is a number (a rational with a positive denominator).
C25_NormalizeFinite ==
    /\ \A k \in FeatureKeys :
        LET w == bl[k]
            var == getStdSquared(w)
        IN /\ w.n < 2 => var = <<1, 1>>
           /\ var[2] > 0 /\ var[1] >= 0
           /\ ~stdClamped(var) => var[1] > 0
           /\ (w.n >= 2 /\ w.m2 = <<0, 1>>) => stdClamped(var)
    /\ normOut.called =>
        \A k \in FeatureKeys :
            /\ normOut.out[k].sq[2] > 0
            /\ normOut.out[k].sq[1] >= 0
            /\ normOut.out[k].sgn \in {-1, 0, 1}
            /\ normOut.out[k].eps = (bl[k].n >= 2 /\ bl[k].m2 = <<0, 1>>)

\* normalize ran on a baseline whose samples all agree (zero variance in
\* every feature), on a vector away from the mean: the floor is the divisor
C25_Witness ==
    /\ normOut.called
    /\ Len(samples) >= 2
    /\ bl["keysPerMin"].m2 = <<0, 1>>
    /\ normOut.out["keysPerMin"].eps
    /\ normOut.out["keysPerMin"].sgn # 0
    /\ normOut.out["keysPerMin"].sq # <<0, 1>>

(***************************************************************************)
(* Properties of Part IV: anxiety levels, interventions, uploads.          *)
(***************************************************************************)
LevelRank(level) ==
    CASE level = "low" -> 0
      [] level = "moderate" -> 1
      [] level = "high" -> 2
      [] level = "critical" -> 3

\* C26: with the default configuration a score below 0.3 is low, a score
\* between 0.3 and 0.5 moderate, between 0.5 and 0.7 high, above 0.7
\* critical, and the level never decreases when the score increases.
C26_LevelsAsDocumented ==
    /\ ml.called =>
        /\ (ml.level = "low") = (ml.score < 30)
        /\ (30 < ml.score /\ ml.score < 50) => ml.level = "moderate"
        /\ (50 < ml.score /\ ml.score < 70) => ml.level = "high"
        /\ ml.score > 70 => ml.level = "critical"
    /\ \A s1, s2 \in 0 .. ScoreScale :
        s1 <= s2 =>
            LevelRank(determineAnxietyLevel(s1, DefaultThresholds))
                <= LevelRank(determineAnxietyLevel(s2, DefaultThresholds))

C27_Step ==
    Len(iv'.interventions) > Len(iv.interventions) =>
        LET n == Len(iv.interventions)
        IN /\ iv.enabled
           /\ ivNow - iv.lastInterventionTime >= intervalOf(iv.sensitivity)
           /\ Len(iv'.interventions) = n + 1
           /\ iv'.interventions[n + 1].level # "low"
           /\ iv'.interventions[n + 1].at = ivNow
           /\ iv'.lastInterventionTime = ivNow

\* C27: generateIntervention produces an intervention only when
\* interventions are enabled, the predicted level is not low and at least the
\* sensitivity's minimum interval (5, 2, 1 minutes for low, medium, high) has
\* passed since the last generated intervention; so any two consecutive
\* interventions are at least the interval of the later one's sensitivity
\* apart.
C27_InterventionsRateLimited ==
    /\ [][C27_Step]_vars
    /\ [](\A i \in 2 .. Len(iv.interventions) :
            iv.interventions[i].at - iv.interventions[i - 1].at
                >= intervalOf(iv.interventions[i].sensitivity))

\* a second intervention came exactly when the low-sensitivity interval had
\* passed, after a first one under another sensitivity
C27_Witness ==
    /\ Len(iv.interventions) = 2
    /\ iv.interventions[1].sensitivity = "high"
    /\ iv.interventions[2].sensitivity = "low"
    /\ iv.interventions[2].at - iv.interventions[1].at = 5
    /\ iv.lastInterventionTime = ivNow

C28_Step ==
    /\ Len(upReqs') > Len(upReqs) =>
            upCfg.enabled /\ upCfg.endpoint # ""
    /\ upCfg = [enabled |-> FALSE, endpoint |-> ""] => upReqs' = upReqs

\* C28: no upload request is sent unless autoUpload.enabled is true and a
\* non-empty endpoint is configured, whichever trigger fires (interval timer,
\* window focus, the upload-now command); under the default configuration
\* no trigger sends anything.
C28_LocalUnlessConfigured ==
    /\ [][C28_Step]_vars
    /\ [](\A i \in 1 .. Len(upReqs) :
            /\ upReqs[i].reason \in UploadReasons
            /\ upReqs[i].cfg.enabled
            /\ upReqs[i].cfg.endpoint # ""
            /\ upReqs[i].endpoint = upReqs[i].cfg.endpoint)

\* each of the three triggers has sent a request under an enabling
\* configuration, and uploading was switched off again afterwards
C28_Witness ==
    /\ Len(upReqs) = 3
    /\ {upReqs[i].reason : i \in 1 .. 3} = UploadReasons
    /\ ~upCfg.enabled
    /\ upCfg.endpoint # ""

(***************************************************************************)
(* Properties of the log rows (Part II): self-report labels, overlapping   *)
(* Monitor.log calls.                                                      *)
(***************************************************************************)
\* the lines of the file that are the row with timestamp ts
LinesOf(ts) ==
    {i \in 1 .. Len(logFile.content) :
        logFile.content[i].kind = "row" /\ logFile.content[i].ts = ts}

\* C29: a self-report label submitted from the dashboard ends up in the
\* selfReport column of the most recent window's row in the log file,
\* whenever it was submitted relative to that row's flush: once no log call
\* is pending and no file operation has failed, the row that was the most
\* recent one at the submission is in the file with the label.
C29_SelfReportLogged ==
    (lastReport.row # 0 /\ logCalls = {} /\ faults = 0) =>
        \E i \in LinesOf(lastReport.row) :
            logFile.content[i].selfReport = lastReport.label

\* C30: every tick with logging enabled contributes its row to the log file
\* exactly once, also when Monitor.log calls overlap: once no call is pending,
\* with no file operation having failed, each row generated so far is in the
\* file once.
C30_EveryRowOnce ==
    (logCalls = {} /\ faults = 0) =>
        \A id \in 1 .. rowSeq : Cardinality(LinesOf(id)) = 1

(***************************************************************************)
(* Properties of the trigger for every configured consecutiveWindows.      *)
(***************************************************************************)
\* C31: for every configured consecutiveWindows K, zero included, a scoring
\* tick reports triggered only on a window whose score is at or above the
\* threshold, and only when the last K windows (at least that one) all
\* scored at or above it.
C31_TriggerOnlyAboveThreshold ==
    LET K == mon[1].consecutiveReq
        T == mon[1].threshold
        P == PostTicks
    IN \A i \in 1 .. Len(P) :
        P[i].triggered =>
            /\ P[i].score >= T
            /\ i >= K
            /\ \A j \in (i - K + 1) .. i : P[j].score >= T


(***************************************************************************)
(* Properties of the activity tracker (Part V).                            *)
(***************************************************************************)
C32_Step ==
    (at'.stats.startedAt = at.stats.startedAt /\ at'.stats.idleMs > at.stats.idleMs)
        => at'.stats.activeMs = at.stats.activeMs

\* C32: no interval is added to both activeMs and idleMs of the activity tracker's record: a callback that closes an idle span (it adds the span to idleMs) adds nothing to activeMs of that record, the time since the last ticker run included.
C32_NoDoubleCount == [][C32_Step]_vars

(***************************************************************************)
(* Properties of the intervention toggle (Part IV).                        *)
(***************************************************************************)
\* the system is disabled although the configuration enables interventions:
\* the toggle command disabled it and no setting was re-read since
C33_DisabledByToggle == ~iv.enabled /\ ivCfg.enabled

C33_Step ==
    (C33_DisabledByToggle /\ ivCfg' # ivCfg)
        => \A level \in AnxietyLevels : ~generates(iv', level, ivNow')

\* C33: once interventions are disabled with the toggle command, a configuration-change event does not bring them back: after the event generateIntervention still returns null for a prediction of every level.
C33_ToggleOffSurvivesConfigChange == [][C33_Step]_vars

(***************************************************************************)
(* Properties of the inter-key average (Part I).                           *)
(***************************************************************************)
\* the step records the first keystroke event of a record: the record was
\* created by the step, or it had no keystroke before it
C34_FirstKeystroke ==
    /\ stats'.keystrokes > 0
    /\ \/ stats'.startedAt # stats.startedAt
       \/ stats.keystrokes = 0 /\ stats'.keystrokes # 0

C34_Step == C34_FirstKeystroke => stats'.interKeyAvgMs = NoVal

\* C34: interKeyAvgMs is undefined until two keystroke events have been observed since the day's record was created or reset: after the first keystroke event of a record it is still undefined.
C34_InterKeyAvgNeedsTwoKeys == [][C34_Step]_vars

(***************************************************************************)
(* Properties of the streak counter (Part II).                             *)
(***************************************************************************)
\* C35: after every tick of a Monitor with consecutiveWindows = K >= 1 the streak counter is in 0 .. K - 1, and it is 0 after every calibration tick and after every tick on which the trigger fired.
C35_StreakBounded ==
    \A i \in 1 .. Len(hist) :
        LET h == hist[i]
            K == mon[h.m].consecutiveReq
        IN K >= 1 =>
            /\ 0 <= h.aboveCount
            /\ h.aboveCount < K
            /\ h.calibrating => h.aboveCount = 0
            /\ h.triggered => h.aboveCount = 0

\* a Monitor with K = 2 has calibrated, built a streak of 1 and then fired
C35_Witness ==
    /\ Len(hist) >= 3
    /\ mon[hist[1].m].consecutiveReq = 2
    /\ \E i \in 1 .. Len(hist) - 2 :
        /\ hist[i].m = hist[i + 1].m /\ hist[i].m = hist[i + 2].m
        /\ hist[i].calibrating
        /\ ~hist[i + 1].calibrating /\ hist[i + 1].aboveCount = 1
        /\ hist[i + 2].triggered /\ hist[i + 2].aboveCount = 0

(***************************************************************************)
(* Properties of the idle bookkeeping (Parts I and V).                     *)
(***************************************************************************)
RECURSIVE ClosedIdleSum(_)
\* the sum of durationMs over the idle events whose duration has been set
ClosedIdleSum(evs) ==
    IF evs = <<>> THEN 0
    ELSE LET e == evs[Len(evs)]
             rest == ClosedIdleSum(SubSeq(evs, 1, Len(evs) - 1))
         IN IF e.type = "idle" /\ e.durationMs # NoVal
            THEN rest + e.durationMs ELSE rest

\* the most recent idle-or-resume event is an idle event
LastIsIdle(evs) ==
    LET ir == SelectSeq(evs, LAMBDA e : e.type \in {"idle", "resume"})
    IN ir # <<>> /\ ir[Len(ir)].type = "idle"

IdleConsistent(s) ==
    /\ s.idleMs = ClosedIdleSum(s.idleEvents)
    /\ s.currentlyIdle <=> LastIsIdle(s.idleEvents)

\* C36: in every DayStats record, the collector's current one and every stored one, idleMs equals the sum of durationMs over the idle events whose duration has been set, and currentlyIdle is true exactly when the most recent idle-or-resume event is an idle event.
C36_IdleConsistent ==
    /\ IdleConsistent(stats)
    /\ \A d \in DOMAIN globalState :
        globalState[d] # NoRec => IdleConsistent(globalState[d])

C36_TrackerIdleConsistent ==
    /\ IdleConsistent(at.stats)
    /\ \A d \in DOMAIN atStore :
        atStore[d] # NoRec => IdleConsistent(atStore[d])

\* a closed idle span of positive length, followed by a resume, is in the record
C36_Witness ==
    /\ stats.idleMs > 0
    /\ ~stats.currentlyIdle
    /\ \E i \in 1 .. Len(stats.idleEvents) - 1 :
        /\ stats.idleEvents[i].type = "idle"
        /\ stats.idleEvents[i].durationMs = stats.idleMs
        /\ stats.idleEvents[i + 1].type = "resume"

(***************************************************************************)
(* Properties of the pause toggle (Part V).                                *)
(***************************************************************************)
C37_Step ==
    LET addedIdle == at'.stats.idleMs - at.stats.idleMs
        addedActive == at'.stats.activeMs - at.stats.activeMs
    IN at'.stats.startedAt = at.stats.startedAt =>
        /\ addedIdle > 0 => atHist.pausedInSpan = 0
        /\ addedActive > 0 =>
              addedActive <= (atNow - at.lastTick) - atHist.pausedSinceTick

\* C37: time during which logging is paused through the dashboard toggle is added to neither counter afterwards: an idle span added to idleMs contains no paused time, and an active credit is at most the unpaused time since lastTick.
C37_PausedTimeUncounted == [][C37_Step]_vars

C39_ViewsLeaveRecordUnchanged == interventions = recordedIv

====
